---- MODULE Spec2Model ----
(***************************************************************************)
(* Discogs vinyl sorter: the paginated fetcher (apiGet, iterateCollection, *)
(* iterateWantlist), the useCollection hook that drains it, and the        *)
(* ordering engine (sortRows).                                             *)
(*                                                                         *)
(* Spec      one run of the page generator, drained by a consumer that may *)
(*           stop pulling (for await ... break).                           *)
(* HookSpec  the useCollection hook: fetchCollection runs started by the   *)
(*           Collection screen, Try Again and Refresh.                     *)
(* SortSpec  sortRows applied to bounded arrays of rows.                   *)
(***************************************************************************)
EXTENDS Integers, Sequences, FiniteSets, TLC

\* ------------------------------------------------------------------ bounds
\* largest total-page count a response reports
MaxTotalPages == 3
\* most releases in one page response
MaxItems == 2
\* fetchCollection calls made on one mounted screen
MaxFetches == 2
\* largest total-page count and most releases per page while the hook is followed
MaxHookPages == 2
MaxHookItems == 1
\* longest array handed to sortRows
MaxRows == 3
\* most entries in basic_information.formats
MaxFormats == 2
\* most entries in basic_information.artists
MaxArtists == 2
MaxAttempt == 6
MaxUpdates == 2
MaxFlows == 2

\* ------------------------------------------------------- program constants
\* an apiGet that allows one attempt more
OneMoreRetry == 3 + 1

\* apiGet(client, url, params, retries = 3)
DefaultRetries == 3
\* getRetryDelay: backoff = 1.0 (seconds), converted with * 1000
BackoffBaseMs == 1000
\* getRetryDelay: Math.min(..., 10000)
MaxBackoffMs == 10000
\* fetchCollection: if (count % 50 === 0) setState(...)
ProgressEvery == 50
\* sortRows: a.year ?? 9999
NullYear == 9999

\* ------------------------------------------------------------ option values
\* null / undefined / an absent field is the empty tuple, a present value v is <<v>>
None == <<>>
Some(v) == <<v>>

Min(a, b) == IF a < b THEN a ELSE b

\* the sequences over S of length at most n
RECURSIVE SeqsUpTo(_, _)
SeqsUpTo(S, n) ==
  IF n = 0 THEN {<<>>}
  ELSE LET shorter == SeqsUpTo(S, n - 1) IN
       shorter \cup {Append(q, x) : q \in {t \in shorter : Len(t) = n - 1}, x \in S}

RECURSIVE Pow2(_)
Pow2(n) == IF n = 0 THEN 1 ELSE 2 * Pow2(n - 1)

VARIABLES
  \* --- network
  inflight,       \* number of HTTP GETs sent and not yet answered
  \* --- apiGet (one call at a time per fetch)
  api,            \* "idle" | "inflight" | "sleeping" | "returned" | "thrown"
  apiFor,         \* "none" | "identity" | "page": which caller awaits the call
  attempt,        \* loop variable of apiGet
  lastError,      \* lastError of apiGet; after a throw, the error thrown
  delay,          \* ms of the sleep in progress
  apiData,        \* response.data returned by apiGet
  \* --- iterateCollection / iterateWantlist (async generator)
  gen,            \* "none" | "start" | "awaiting" | "yield" | "completed" | "threw" | "returned"
  page,           \* let page
  totalPages,     \* let totalPages: None is null
  maxPages,       \* parameter maxPages: None is undefined
  pending,        \* items of the current page not yet consumed (the yielded one included)
  genError,       \* the error the generator threw
  \* --- consumer of the generator
  caller,         \* "direct" (any for-await consumer) | "hook" (fetchCollection)
  consumer,       \* "pulling" | "stopped" | "done" | "failed"
  \* --- useCollection
  state,          \* CollectionState
  fpc,            \* position of the running fetchCollection
  rows,           \* const rows: ReleaseRow[]
  count,          \* let count
  fetches,        \* number of fetchCollection calls so far
  \* --- history (not read by the program)
  requested,      \* page numbers passed to fetchCollectionPage, in order
  firstReported,  \* pagination.pages of the first successful page response
  okPages,        \* number of page requests answered successfully
  httpCount,      \* GETs sent by the current apiGet call
  httpOk,         \* the current apiGet call received a successful response
  lastAttemptErr, \* the error of the most recent failed attempt
  waited,         \* the current apiGet call slept after its latest failure
  respItems,      \* number of items in the latest successful page response
  respKinds,      \* what each of these items is: an entry of ItemKinds, or
                  \* "taken" once the loop of fetchCollection has had it
  qualifying,     \* <<page, index>> of the entries received so far that have
                  \* basic_information and pass isLp33
  handed,         \* how many of them the generator has yielded
  anyFetched,     \* the running fetch has received at least one entry
  failed,         \* an apiGet call of the running fetch has given up
  malformed,      \* a successful page response lacked pagination or its pages
  errOutcomes,    \* <<anyFetched, state>> of every fetch that ended in 'error'
  \* --- sortRows
  inRows,         \* the array passed to sortRows
  variousPolicy,
  sortBy,
  sorted,         \* the array sortRows returned (None before the call)
  \* --- isLp33
  basic,          \* basic_information: its formats array
  strict,         \* parameter strict
  lp,             \* what isLp33 returned (None before the call)
  \* --- buildReleaseRow
  item,           \* the collection item
  extraArticles,  \* parameter extraArticles
  row,            \* the ReleaseRow built (None before the call)
  \* --- CollectionScreen sections
  letters,        \* getSectionLetter(row, sortBy) of each row of filteredRows
  showDividers,   \* effectiveSettings.showDividers
  sections,       \* the sections array (None before it is computed)
  \* --- generateTxt
  txtRows,        \* parameter rows
  dividers,       \* parameter dividers
  txt,            \* the string generateTxt returned (None before the call)
  \* --- credential storage
  authItem,       \* the item stored under AUTH_KEY (None when there is none)
  legacyItem,     \* the item stored under LEGACY_TOKEN_KEY (None when there is none)
  tokenCall,      \* the last getStoredToken call: what getStoredCredentials
                  \* gave it and what it returned (None before the first call)
  \* --- the catch block of apiGet
  failedError,    \* the error a client.get of apiGet rejected with
  failedAttempt,  \* the loop index attempt at that rejection
  retryWait,      \* the delay the catch block sleeps for (None before it is computed)
  \* --- concurrent fetchCollection calls of one hook
  runs,           \* the fetchCollection calls made: each one's position and local rows
  writer,         \* the call whose setState set state last (0 after reset)
  lpStrict,       \* effectiveSettings.lpStrict
  prevLpStrict,   \* the ref prevLpStrict (None is null)
  hasFetched,     \* the ref hasFetched
  \* --- useSettings
  settings,       \* the state settings (None is null)
  closure,        \* the settings the current updateSettings callback closes over
  storedSettings, \* the item stored under SETTINGS_KEY (None when there is none)
  saving,         \* the JSON texts of the saveSettings calls in flight
  lastSet,        \* for each field, the value of the last updateSettings call that set it
  updatesMade,    \* the number of updateSettings calls made
  \* --- handleExport of the Collection screen
  exporting,      \* the state exporting
  exported,       \* format and content of the file exportAndShare wrote last (None before)
  \* --- AuthScreen and runDiscogsOAuthFlow
  consumerKey,    \* DISCOGS_CONSUMER_KEY
  flow,           \* position of runDiscogsOAuthFlow and its caller
  requestToken,   \* oauthToken and oauthTokenSecret of getRequestToken (None before)
  browserResult,  \* what openAuthSessionAsync resolved with (None before)
  flowTokens,     \* the tokens runDiscogsOAuthFlow returned (None before)
  events,         \* what the current sign-in has done so far, in order
  oauthLoading,   \* the state oauthLoading
  authError,      \* the state error (None is null)
  authenticated,  \* onAuthenticated was called
  flowsStarted    \* the number of sign-ins started

netVars == <<inflight>>
apiVars == <<api, apiFor, attempt, lastError, delay, apiData>>
genVars == <<gen, page, totalPages, maxPages, pending, genError>>
consVars == <<caller, consumer>>
hookVars == <<state, fpc, rows, count, fetches>>
histVars == <<requested, firstReported, okPages, httpCount, httpOk, lastAttemptErr, waited,
              respItems, respKinds, qualifying, handed, anyFetched, failed, malformed, errOutcomes>>
sortVars == <<inRows, variousPolicy, sortBy, sorted>>
lpVars == <<basic, strict, lp>>
\* the arguments and results of the synchronous transforms
rowVars == <<item, extraArticles, row>>
secVars == <<letters, showDividers, sections>>
txtVars == <<txtRows, dividers, txt>>
authVars == <<authItem, legacyItem, tokenCall>>
waitVars == <<failedError, failedAttempt, retryWait>>
raceVars == <<runs, writer, lpStrict, prevLpStrict, hasFetched>>
setVars == <<settings, closure, storedSettings, saving, lastSet, updatesMade>>
exportVars == <<exporting, exported>>
oauthVars == <<consumerKey, flow, requestToken, browserResult, flowTokens, events, oauthLoading, authError, authenticated, flowsStarted>>
sideVars == <<authVars, waitVars, raceVars, setVars, exportVars, oauthVars>>
besidesAuth == <<waitVars, raceVars, setVars, exportVars, oauthVars>>
besidesWait == <<authVars, raceVars, setVars, exportVars, oauthVars>>
besidesRace == <<authVars, waitVars, setVars, exportVars, oauthVars>>
besidesSet == <<authVars, waitVars, raceVars, exportVars, oauthVars>>
besidesExport == <<authVars, waitVars, raceVars, setVars, oauthVars>>
besidesOauth == <<authVars, waitVars, raceVars, setVars, exportVars>>
pureVars == <<sortVars, lpVars, rowVars, secVars, txtVars, sideVars>>
vars == <<netVars, apiVars, genVars, consVars, hookVars, histVars, pureVars>>

\* ------------------------------------------------------------------ errors
\* What client.get rejects with. axios rejects with an AxiosError: with a
\* response when the server answered outside 2xx, without one on a network
\* failure or timeout. A request interceptor (the OAuth signer) can throw a
\* plain Error, which carries no response either.  n numbers the attempt that
\* produced the error, so two errors of the same kind are still two objects.
NoResponse == [present |-> FALSE, status |-> 0, retryAfter |-> ""]
NoError == [kind |-> "none", isAxiosError |-> FALSE, response |-> NoResponse, n |-> 0]
HttpError(s, ra, n) ==
  [kind |-> "error", isAxiosError |-> TRUE,
   response |-> [present |-> TRUE, status |-> s, retryAfter |-> ra], n |-> n]
NetworkError(n) ==
  [kind |-> "error", isAxiosError |-> TRUE, response |-> NoResponse, n |-> n]
PlainError(n) ==
  [kind |-> "error", isAxiosError |-> FALSE, response |-> NoResponse, n |-> n]
\* TypeError of data.pagination.pages when data.pagination is undefined
TypeErrorPages == [kind |-> "type", isAxiosError |-> FALSE, response |-> NoResponse, n |-> 0]

\* statuses the server answers a failed GET with
Statuses == {404, 429, 499, 500, 599, 600}
\* Retry-After header of a failed response: "" is an absent header
RetryAfterVals == {"", "2", "soon"}

Failures(n) ==
  {HttpError(s, ra, n) : s \in Statuses, ra \in RetryAfterVals}
    \cup {NetworkError(n), PlainError(n)}

\* the failures drawn while the hook is followed: one that is not retried, one
\* that is, and one without a response
HookFailures(n) == {HttpError(404, "", n), HttpError(500, "", n), NetworkError(n)}

\* err.message
Message(e) ==
  IF e.kind = "type" THEN <<"Cannot read property 'pages' of undefined", 0>>
  ELSE IF e.response.present THEN <<"Request failed with status code", e.response.status>>
  ELSE IF e.isAxiosError THEN <<"Network Error", 0>>
  ELSE <<"Error", 0>>

\* ------------------------------------------------------------- retry helper
\* a shouldRetry without the upper end of the 5xx range
shouldRetryNoUpperEnd(status) == status = 429 \/ status >= 500

shouldRetry(status) == status = 429 \/ (status >= 500 /\ status < 600)

\* parseFloat of a Retry-After value: None is NaN
ParseFloat(s) ==
  CASE s = "2" -> Some(2)
    [] s = "0" -> Some(0)
    [] s = "120" -> Some(120)
    [] OTHER -> None

\* a getRetryDelay whose backoff has no ceiling
getRetryDelayUncapped(response, att) ==
  IF response.present /\ response.retryAfter # "" /\ ParseFloat(response.retryAfter) # None
  THEN ParseFloat(response.retryAfter)[1] * 1000
  ELSE Pow2(att) * BackoffBaseMs

\* response is the failed response (present = FALSE for undefined)
getRetryDelay(response, att) ==
  IF response.present /\ response.retryAfter # "" /\ ParseFloat(response.retryAfter) # None
  THEN ParseFloat(response.retryAfter)[1] * 1000
  ELSE Min(Pow2(att) * BackoffBaseMs, MaxBackoffMs)


\* ------------------------------------------------------------------ strings
\* A string is the tuple of its characters.
UpperChars ==
  <<"A", "B", "C", "D", "E", "F", "G", "H", "I", "J", "K", "L", "M",
    "N", "O", "P", "Q", "R", "S", "T", "U", "V", "W", "X", "Y", "Z">>
LowerChars ==
  <<"a", "b", "c", "d", "e", "f", "g", "h", "i", "j", "k", "l", "m",
    "n", "o", "p", "q", "r", "s", "t", "u", "v", "w", "x", "y", "z">>
WhiteSpace == {" ", "\t", "\n"}

\* String.prototype.toLowerCase, toUpperCase. Beside ASCII the strings hold
\* the letters U+00E9 and U+00C9 (e and E with acute accent), written "e_acute"
\* and "E_acute", and the em dash U+2014, written "--".
Chars ==
  {UpperChars[i] : i \in 1..26} \cup {LowerChars[i] : i \in 1..26}
    \cup {"e_acute", "E_acute", "--"}
    \cup WhiteSpace
    \cup {",", "0", "1", "2", "3", "4", "5", "6", "7", "8", "9"}
    \cup {".", "/", "\"", "'", "-", "(", ")", "&", "+", "!", "?", "#", "[", "]", "=", "_"}
LowerOf ==
  [c \in Chars |->
     IF \E i \in 1..26 : UpperChars[i] = c
     THEN LowerChars[CHOOSE i \in 1..26 : UpperChars[i] = c]
     ELSE IF c = "E_acute" THEN "e_acute"
     ELSE c]
ToLowerChar(c) == LowerOf[c]
ToLowerCase(str) == [i \in 1..Len(str) |-> ToLowerChar(str[i])]
ToUpperChar(c) ==
  IF \E i \in 1..26 : LowerChars[i] = c
  THEN UpperChars[CHOOSE i \in 1..26 : LowerChars[i] = c]
  ELSE IF c = "e_acute" THEN "E_acute"
  ELSE c

\* String.prototype.trim
RECURSIVE TrimStart(_)
TrimStart(str) ==
  IF str # <<>> /\ Head(str) \in WhiteSpace THEN TrimStart(Tail(str)) ELSE str
RECURSIVE TrimEnd(_)
TrimEnd(str) ==
  IF str # <<>> /\ str[Len(str)] \in WhiteSpace
  THEN TrimEnd(SubSeq(str, 1, Len(str) - 1))
  ELSE str
Trim(str) == TrimEnd(TrimStart(str))

\* String.prototype.includes, endsWith, startsWith
Includes(t, sub) == \E i \in 0..(Len(t) - Len(sub)) : SubSeq(t, i + 1, i + Len(sub)) = sub
EndsWith(t, sub) == Len(sub) <= Len(t) /\ SubSeq(t, Len(t) - Len(sub) + 1, Len(t)) = sub
StartsWith(t, sub) == Len(sub) <= Len(t) /\ SubSeq(t, 1, Len(sub)) = sub

\* t.replace(c, '') with a string pattern of one character: the first
\* occurrence goes, later ones stay
RemoveFirst(t, c) ==
  IF \E i \in 1..Len(t) : t[i] = c
  THEN LET i == CHOOSE k \in 1..Len(t) : t[k] = c /\ \A j \in 1..(k - 1) : t[j] # c
       IN SubSeq(t, 1, i - 1) \o SubSeq(t, i + 1, Len(t))
  ELSE t

\* String.prototype.localeCompare on sort keys: -1, 0 or 1. The collation puts
\* white space and punctuation before digits and digits before letters, and a
\* proper prefix before the longer string; an accented letter follows its
\* base letter.
Collation ==
  <<" ", ",", "0", "1", "2", "3", "4", "5", "6", "7", "8", "9">>
    \o SubSeq(LowerChars, 1, 5) \o <<"e_acute">> \o SubSeq(LowerChars, 6, 26)
RankOf ==
  [c \in Chars |->
     IF \E i \in 1..Len(Collation) : Collation[i] = LowerOf[c]
     THEN CHOOSE i \in 1..Len(Collation) : Collation[i] = LowerOf[c]
     ELSE 0]
Rank(c) == RankOf[c]
RECURSIVE LocaleCompare(_, _)
LocaleCompare(a, b) ==
  IF a = <<>> /\ b = <<>> THEN 0
  ELSE IF a = <<>> THEN -1
  ELSE IF b = <<>> THEN 1
  ELSE IF Rank(Head(a)) < Rank(Head(b)) THEN -1
  ELSE IF Rank(Head(a)) > Rank(Head(b)) THEN 1
  ELSE LocaleCompare(Tail(a), Tail(b))

\* ------------------------------------------------------------------ numbers
\* The values a comparator returns: a finite number, +-Infinity or NaN.
Num(v) == <<"num", v>>
PosInf == <<"inf", 1>>
NegInf == <<"inf", -1>>
NaN == <<"nan", 0>>

\* x - y in IEEE arithmetic
Minus(x, y) ==
  IF x[1] = "nan" \/ y[1] = "nan" THEN NaN
  ELSE IF x[1] = "inf" /\ y[1] = "inf" THEN (IF x[2] = y[2] THEN NaN ELSE x)
  ELSE IF x[1] = "inf" THEN x
  ELSE IF y[1] = "inf" THEN <<"inf", 0 - y[2]>>
  ELSE Num(x[2] - y[2])

\* what Array.prototype.sort makes of a comparator's result: NaN counts as 0
SortCompare(v) ==
  IF v[1] = "nan" THEN 0
  ELSE IF v[1] = "inf" THEN v[2]
  ELSE IF v[2] < 0 THEN -1
  ELSE IF v[2] > 0 THEN 1
  ELSE 0

\* --------------------------------------------------------------------- rows
\* ReleaseRow, the fields sortRows reads, and release_id.
RowAbba ==
  [artist_display |-> <<"A", "b", "b", "a">>,
   sort_artist |-> <<"a", "b", "b", "a">>,
   sort_title |-> <<"g", "o", "l", "d">>,
   year |-> Some(1992), lowest_price |-> Some(5), release_id |-> 1]
RowAbbaRepress ==
  [artist_display |-> <<"A", "b", "b", "a">>,
   sort_artist |-> <<"a", "b", "b", "a">>,
   sort_title |-> <<"g", "o", "l", "d">>,
   year |-> Some(1992), lowest_price |-> Some(5), release_id |-> 2]
RowZappa ==
  [artist_display |-> <<"Z", "a", "p", "p", "a">>,
   sort_artist |-> <<"z", "a", "p", "p", "a">>,
   sort_title |-> <<"a", "p", "o", "s", "t", "r", "o", "p", "h", "e">>,
   year |-> None, lowest_price |-> None, release_id |-> 3]
RowVarious ==
  [artist_display |-> <<"V", "a", "r", "i", "o", "u", "s">>,
   sort_artist |-> <<"v", "a", "r", "i", "o", "u", "s">>,
   sort_title |-> <<"h", "i", "t", "s">>,
   year |-> Some(1992), lowest_price |-> Some(5), release_id |-> 4]
RowVariousArtists ==
  [artist_display |-> <<" ", "V", "A", "R", "I", "O", "U", "S", " ", "A", "R", "T", "I", "S", "T", "S", " ">>,
   sort_artist |-> <<"v", "a", "r", "i", "o", "u", "s", " ", "a", "r", "t", "i", "s", "t", "s">>,
   sort_title |-> <<"g", "o", "l", "d">>,
   year |-> None, lowest_price |-> Some(9), release_id |-> 5]
RowVariousUnpriced ==
  [artist_display |-> <<"v", "a", "r", "i", "o", "u", "s">>,
   sort_artist |-> <<"v", "a", "r", "i", "o", "u", "s">>,
   sort_title |-> <<"a", "p", "o", "s", "t", "r", "o", "p", "h", "e">>,
   year |-> Some(1992), lowest_price |-> None, release_id |-> 6]
RowVariousAndX ==
  [artist_display |-> <<"V", "a", "r", "i", "o", "u", "s", ",", " ", "X">>,
   sort_artist |-> <<"v", "a", "r", "i", "o", "u", "s">>,
   sort_title |-> <<"h", "i", "t", "s">>,
   year |-> Some(1992), lowest_price |-> None, release_id |-> 7]
RowVariations ==
  [artist_display |-> <<"V", "a", "r", "i", "a", "t", "i", "o", "n", "s">>,
   sort_artist |-> <<"v", "a", "r", "i", "a", "t", "i", "o", "n", "s">>,
   sort_title |-> <<"a", "p", "o", "s", "t", "r", "o", "p", "h", "e">>,
   year |-> Some(2001), lowest_price |-> Some(9), release_id |-> 8]

\* Rows as buildReleaseRow produces them (sort_artist is the lower-cased text
\* before the first '/' or ',' of artist_display), priced or not. RowAbba and
\* RowAbbaRepress are two pressings with the same keys; RowVariousAndX is not a
\* compilation although its artist key is 'various'.
RowPool ==
  {RowAbba, RowAbbaRepress, RowZappa, RowVarious,
   RowVariousArtists, RowVariousUnpriced, RowVariousAndX, RowVariations}

Policies == {"normal", "last", "title"}
SortBys == {"artist", "title", "year", "price_asc", "price_desc"}

\* ------------------------------------------------------------ Various Artists
\* an isVariousArtist that compares the display string as it is
isVariousArtistExact(artistDisplay) ==
  \/ artistDisplay = <<"v", "a", "r", "i", "o", "u", "s">>
  \/ artistDisplay
       = <<"v", "a", "r", "i", "o", "u", "s", " ", "a", "r", "t", "i", "s", "t", "s">>

isVariousArtist(artistDisplay) ==
  LET a == ToLowerCase(Trim(artistDisplay)) IN
  \/ a = <<"v", "a", "r", "i", "o", "u", "s">>
  \/ a = <<"v", "a", "r", "i", "o", "u", "s", " ", "a", "r", "t", "i", "s", "t", "s">>

\* ------------------------------------------------------------------ sorting
yearOr9999(r) == IF r.year = None THEN NullYear ELSE r.year[1]

\* a.sort_artist + a.sort_title
keyConcat(r) == r.sort_artist \o r.sort_title

\* a price_desc comparator that takes a missing price for the highest one
cmpPriceDescNullHighest(a, b) ==
  LET aVal == IF a.lowest_price = None THEN PosInf ELSE Num(a.lowest_price[1])
      bVal == IF b.lowest_price = None THEN PosInf ELSE Num(b.lowest_price[1])
  IN Minus(bVal, aVal)

\* sortBy === 'price_desc': (a, b) => bVal - aVal, null as -Infinity
cmpPriceDesc(a, b) ==
  LET aVal == IF a.lowest_price = None THEN NegInf ELSE Num(a.lowest_price[1])
      bVal == IF b.lowest_price = None THEN NegInf ELSE Num(b.lowest_price[1])
  IN Minus(bVal, aVal)

\* sortBy === 'price_asc': (a, b) => aVal - bVal, null as Infinity
cmpPriceAsc(a, b) ==
  LET aVal == IF a.lowest_price = None THEN PosInf ELSE Num(a.lowest_price[1])
      bVal == IF b.lowest_price = None THEN PosInf ELSE Num(b.lowest_price[1])
  IN Minus(aVal, bVal)

\* sortBy === 'year'
cmpYear(a, b) ==
  IF yearOr9999(a) # yearOr9999(b)
  THEN Num(yearOr9999(a) - yearOr9999(b))
  ELSE Num(LocaleCompare(keyConcat(a), keyConcat(b)))

\* the variousPolicy === 'last' partition flag
varFlag(r, vp) == IF vp = "last" /\ isVariousArtist(r.artist_display) THEN 1 ELSE 0

\* the comparator of the artist / title sort
cmpArtistTitle(a, b, vp, sb) ==
  LET isVarA == isVariousArtist(a.artist_display)
      isVarB == isVariousArtist(b.artist_display)
      byTitleOnly == vp = "title" /\ isVarA /\ isVarB
      primaryA == IF byTitleOnly \/ sb = "title" THEN a.sort_title ELSE a.sort_artist
      primaryB == IF byTitleOnly \/ sb = "title" THEN b.sort_title ELSE b.sort_artist
      secondaryA == IF byTitleOnly THEN a.sort_title
                    ELSE IF sb = "title" THEN a.sort_artist ELSE a.sort_title
      secondaryB == IF byTitleOnly THEN b.sort_title
                    ELSE IF sb = "title" THEN b.sort_artist ELSE b.sort_title
  IN IF varFlag(a, vp) # varFlag(b, vp) THEN Num(varFlag(a, vp) - varFlag(b, vp))
     ELSE IF primaryA # primaryB THEN Num(LocaleCompare(primaryA, primaryB))
     ELSE IF secondaryA # secondaryB THEN Num(LocaleCompare(secondaryA, secondaryB))
     ELSE IF yearOr9999(a) # yearOr9999(b) THEN Num(yearOr9999(a) - yearOr9999(b))
     ELSE Num(LocaleCompare(keyConcat(a), keyConcat(b)))

\* the comparator sortRows picks for sortBy
comparator(a, b, vp, sb) ==
  IF sb = "price_desc" THEN cmpPriceDesc(a, b)
  ELSE IF sb = "price_asc" THEN cmpPriceAsc(a, b)
  ELSE IF sb = "year" THEN cmpYear(a, b)
  ELSE cmpArtistTitle(a, b, vp, sb)

\* Array.prototype.sort is stable: x goes behind the last element that does not
\* compare greater than it.
RECURSIVE InsertSorted(_, _, _, _)
InsertSorted(s, x, vp, sb) ==
  IF s = <<>> THEN <<x>>
  ELSE IF SortCompare(comparator(s[Len(s)], x, vp, sb)) > 0
       THEN Append(InsertSorted(SubSeq(s, 1, Len(s) - 1), x, vp, sb), s[Len(s)])
       ELSE Append(s, x)

RECURSIVE ArraySort(_, _, _)
ArraySort(s, vp, sb) ==
  IF s = <<>> THEN <<>>
  ELSE CHOOSE res \in {InsertSorted(front, s[Len(s)], vp, sb) :
                         front \in {ArraySort(SubSeq(s, 1, Len(s) - 1), vp, sb)}} : TRUE

\* [...rows].sort(comparator)
sortRows(rs, vp, sb) == ArraySort(rs, vp, sb)


\* ---------------------------------------------------------- format detection
\* descSetHas33Rpm(descs: Set<string>)
descSetHas33Rpm(descs) ==
  IF descs = {} THEN FALSE
  ELSE
    LET norm == {RemoveFirst(RemoveFirst(t, "."), " ") : t \in descs}
        hasCombined ==
          \E t \in norm : Includes(t, <<"3", "3">>) /\ Includes(t, <<"r", "p", "m">>)
        has33 == \E t \in norm : Includes(t, <<"3", "3">>)
        hasRpm == \E t \in norm : t = <<"r", "p", "m">> \/ EndsWith(t, <<"r", "p", "m">>)
        hasLpHint == <<"l", "p">> \in norm \/ <<"a", "l", "b", "u", "m">> \in norm
    IN IF hasCombined THEN TRUE ELSE has33 /\ (hasRpm \/ hasLpHint)

\* const sizeTokens = new Set(['12"', '12in', '12-inch'])
sizeTokens ==
  {<<"1", "2", "\"">>, <<"1", "2", "i", "n">>, <<"1", "2", "-", "i", "n", "c", "h">>}

\* (f.name || '').trim().toLowerCase() === 'vinyl'
isVinyl(f) ==
  ToLowerCase(Trim(IF f.name = None THEN <<>> ELSE f.name[1])) = <<"v", "i", "n", "y", "l">>

\* (f.descriptions || []).filter((d) => d).map((d) => d.trim().toLowerCase()), as a Set
descSet(f) ==
  LET ds == IF f.descriptions = None THEN <<>> ELSE f.descriptions[1]
  IN {ToLowerCase(Trim(ds[i])) : i \in {k \in 1..Len(ds) : ds[k] # <<>>}}

\* isLp33(basic, strict)
isLp33(b, st) ==
  LET formats == IF b.formats = None THEN <<>> ELSE b.formats[1]
      vinylFormats == {i \in 1..Len(formats) : isVinyl(formats[i])}
      descSets == {descSet(formats[i]) : i \in vinylFormats}
      hasLpOrAlbum(s) == <<"l", "p">> \in s \/ <<"a", "l", "b", "u", "m">> \in s
  IN IF vinylFormats = {} THEN FALSE
     ELSE IF st
          THEN \E s \in descSets : hasLpOrAlbum(s) /\ descSetHas33Rpm(s)
          ELSE \E s \in descSets :
                 LET has12And33 == \E d \in s : d \in sizeTokens \/ Includes(d, <<"1", "2">>)
                 IN hasLpOrAlbum(s) \/ (descSetHas33Rpm(s) /\ has12And33)

\* the entries of basic.formats: name and descriptions are absent, or a string
\* and an array of strings
FormatPool ==
  [name :
     {None, Some(<<"V", "i", "n", "y", "l">>), Some(<<" ", "V", "I", "N", "Y", "L", " ">>),
      Some(<<"C", "D">>)},
   descriptions :
     {None,
      Some(<<<<"L", "P">>>>),
      Some(<<<<"1", "2", "\"">>, <<"3", "3", " ", "1", "/", "3", " ", "R", "P", "M">>>>),
      Some(<<<<"L", "P">>, <<"3", "3", " ", "1", "/", "3", " ", "R", "P", "M">>>>),
      Some(<<<<" ", "A", "l", "b", "u", "m", " ">>, <<>>, <<"3", "3">>, <<"R", "P", "M">>>>),
      Some(<<<<"L", "P">>, <<"3", "3">>>>),
      Some(<<<<"L", "P">>, <<"4", "5", " ", "R", "P", "M">>>>),
      Some(<<<<"3", "3", ".", "R", "P", "M">>>>),
      Some(<<<<"1", "2", "i", "n">>, <<"3", "3">>, <<"4", "5", "r", "p", "m">>>>),
      Some(<<<<"7", "\"">>, <<"4", "5", " ", "R", "P", "M">>>>),
      Some(<<<<"A", "l", "b", "u", "m">>, <<"3", " ", ".", " ", "3", " ", "R", "P", "M">>>>),
      Some(<<<<"N", "o", ".", "1", "2">>, <<"3", "3", " ", "r", "p", "m">>>>)}]

\* const lp = isLp33(basic, strict)
IsLp33 ==
  /\ lp = None
  /\ lp' = Some(isLp33(basic, strict))
  /\ UNCHANGED <<basic, strict, sortVars, rowVars, secVars, txtVars, sideVars>>
  /\ UNCHANGED <<netVars, apiVars, genVars, consVars, hookVars, histVars>>

\* ------------------------------------------------------- string normalization
Digits == {"0", "1", "2", "3", "4", "5", "6", "7", "8", "9"}

\* number of white-space characters t starts with
RECURSIVE LeadingSpace(_)
LeadingSpace(t) ==
  IF t # <<>> /\ Head(t) \in WhiteSpace THEN 1 + LeadingSpace(Tail(t)) ELSE 0

\* number of digits t ends with
RECURSIVE TrailingDigits(_)
TrailingDigits(t) ==
  IF t # <<>> /\ t[Len(t)] \in Digits
  THEN 1 + TrailingDigits(SubSeq(t, 1, Len(t) - 1))
  ELSE 0

\* name.replace(TRAILING_NUMERIC_RE, '') with TRAILING_NUMERIC_RE = /\s*\((\d+)\)$/:
\* the match is a final '(digits)' with the white space in front of it
ReplaceTrailingNumeric(name) ==
  IF name # <<>> /\ name[Len(name)] = ")"
  THEN LET inner == SubSeq(name, 1, Len(name) - 1)
           d == TrailingDigits(inner)
           before == SubSeq(inner, 1, Len(inner) - d)
       IN IF d > 0 /\ before # <<>> /\ before[Len(before)] = "("
          THEN TrimEnd(SubSeq(before, 1, Len(before) - 1))
          ELSE name
  ELSE name

\* stripDiscogsNumericSuffix(name)
stripDiscogsNumericSuffix(name) == Trim(ReplaceTrailingNumeric(name))

\* ['the', 'a', 'an', ...extraArticles.map((a) => a.trim().toLowerCase()).filter(Boolean)]
articlesOf(extra) ==
  <<<<"t", "h", "e">>, <<"a">>, <<"a", "n">>>>
    \o SelectSeq([i \in 1..Len(extra) |-> ToLowerCase(Trim(extra[i]))],
                 LAMBDA a : a # <<>>)

\* the for loop of stripArticles over articles[k..]
RECURSIVE stripFirstArticle(_, _, _, _)
stripFirstArticle(t, low, articles, k) ==
  IF k > Len(articles) THEN t
  ELSE LET art == articles[k]
           a == IF art # <<>> /\ art[Len(art)] = "'" THEN SubSeq(art, 1, Len(art) - 1) ELSE art
           sliced == Trim(SubSeq(t, Len(a) + 2, Len(t)))
       IN IF StartsWith(low, a \o <<" ">>) THEN sliced
          ELSE IF a # <<>> /\ StartsWith(low, a \o <<"'">>) THEN sliced
          ELSE stripFirstArticle(t, low, articles, k + 1)

\* stripArticles(text, extraArticles)
stripArticles(text, extra) ==
  IF text = <<>> THEN <<>>
  ELSE stripFirstArticle(Trim(text), ToLowerCase(Trim(text)), articlesOf(extra), 1)

\* ------------------------------------------------------------ artist display
\* s.split(c)[0]: the text before the first c
BeforeFirst(s, c) ==
  IF \E i \in 1..Len(s) : s[i] = c
  THEN SubSeq(s, 1, (CHOOSE k \in 1..Len(s) : s[k] = c /\ \A j \in 1..(k - 1) : s[j] # c) - 1)
  ELSE s

\* the join token /[&,+.]|feat\.|with/i that t starts with (<<>> when none)
JoinTokenAt(t) ==
  IF t # <<>> /\ Head(t) \in {"&", ",", "+", "."} THEN <<Head(t)>>
  ELSE IF Len(t) >= 5 /\ ToLowerCase(SubSeq(t, 1, 5)) = <<"f", "e", "a", "t", ".">>
       THEN SubSeq(t, 1, 5)
  ELSE IF Len(t) >= 4 /\ ToLowerCase(SubSeq(t, 1, 4)) = <<"w", "i", "t", "h">>
       THEN SubSeq(t, 1, 4)
  ELSE <<>>

\* t.replace(/\s+([&,+.]|feat\.|with)\s+/gi, ' $1 ')
RECURSIVE NormalizeJoins(_)
NormalizeJoins(t) ==
  IF t = <<>> THEN <<>>
  ELSE IF Head(t) \in WhiteSpace
       THEN LET w == LeadingSpace(t)
                rest == SubSeq(t, w + 1, Len(t))
                tok == JoinTokenAt(rest)
                after == SubSeq(rest, Len(tok) + 1, Len(rest))
                v == LeadingSpace(after)
            IN IF tok # <<>> /\ v > 0
               THEN <<" ">> \o tok \o <<" ">> \o NormalizeJoins(SubSeq(after, v + 1, Len(after)))
               ELSE SubSeq(t, 1, w) \o NormalizeJoins(rest)
       ELSE <<Head(t)>> \o NormalizeJoins(Tail(t))

\* the for loop of buildArtistDisplay: parts.join('') of artists[k..]
RECURSIVE joinedParts(_, _)
joinedParts(artists, k) ==
  IF k > Len(artists) THEN <<>>
  ELSE LET a == artists[k]
           nm == Trim(ReplaceTrailingNumeric(a.name))
       IN nm \o (IF a.join # <<>> THEN a.join \o <<" ">> ELSE <<>>) \o joinedParts(artists, k + 1)

\* buildArtistDisplay(basic); an absent name, join, artist or title is ''
buildArtistDisplay(b) ==
  IF b.artists = <<>>
  THEN IF b.artist # <<>> THEN b.artist ELSE b.title
  ELSE NormalizeJoins(Trim(joinedParts(b.artists, 1)))

\* labelAndCatno(basic)
labelAndCatno(b) ==
  IF b.labels = <<>> THEN <<<<>>, <<>>>> ELSE <<b.labels[1].name, b.labels[1].catno>>

\* makeSortKeys(artistDisplay, title, extraArticles)
makeSortKeys(artistDisplay, title, extra) ==
  LET artistFirst == Trim(BeforeFirst(BeforeFirst(artistDisplay, "/"), ","))
      artistClean == Trim(stripDiscogsNumericSuffix(artistFirst))
      sortArtist == ToLowerCase(stripArticles(artistClean, extra))
      sortTitle == ToLowerCase(stripArticles(title, extra))
  IN <<sortArtist, sortTitle>>

\* ------------------------------------------------------------ buildReleaseRow
\* yearRaw !== undefined && String(yearRaw).match(/^\d+$/) ? parseInt(...) : null
yearOf(yearRaw) == IF yearRaw # None /\ yearRaw[1] >= 0 THEN yearRaw ELSE None

\* buildReleaseRow(item, extraArticles): the fields of the row that the
\* ordering engine and the exporter read, and release_id. lowest_price is not
\* set by buildReleaseRow.
buildReleaseRow(it, extra) ==
  LET b == it.basic_information
      artistDisplay == buildArtistDisplay(b)
      keys == makeSortKeys(artistDisplay, b.title, extra)
  IN [artist_display |-> artistDisplay,
      title |-> b.title,
      year |-> yearOf(b.year),
      label |-> labelAndCatno(b)[1],
      catno |-> labelAndCatno(b)[2],
      release_id |-> b.id,
      sort_artist |-> keys[1],
      sort_title |-> keys[2],
      lowest_price |-> None]

\* the entries of basic.artists: a name, with or without a Discogs
\* disambiguator, and a join token ('' when absent)
ArtistPool ==
  [name :
     {<<"B", "o", "a", "r", "d", "s", " ", "o", "f", " ", "C", "a", "n", "a", "d", "a", " ", "(", "2", ")">>,
      <<"T", "h", "e", " ", "B", "e", "a", "t", "l", "e", "s">>,
      <<"A", "i", "r">>,
      <<"L", "'", "A", "g", "e", " ", " ", "(", "1", "2", ")">>},
   join : {<<>>, <<"/">>, <<" ", "&", " ">>}]

\* const row = buildReleaseRow(item, extraArticles)
BuildReleaseRow ==
  /\ row = None
  /\ row' = Some(buildReleaseRow(item, extraArticles))
  /\ UNCHANGED <<item, extraArticles, sortVars, lpVars, secVars, txtVars,
               sideVars>>
  /\ UNCHANGED <<netVars, apiVars, genVars, consVars, hookVars, histVars>>

\* ---------------------------------------------------------------- responses
\* response.data of a successful GET. A page response carries pagination
\* (possibly absent, possibly without its pages field) and releases / wants
\* (possibly absent); the identity response carries username.
NoPagination == [present |-> FALSE, pages |-> None]
Paginations ==
  {NoPagination}
    \cup {[present |-> TRUE, pages |-> p] :
            p \in {None} \cup {Some(k) : k \in 0..MaxTotalPages}}
ReleaseCounts == {None} \cup {Some(n) : n \in 0..MaxItems}
PageData ==
  {[username |-> "", pagination |-> pg, releases |-> r] :
     pg \in Paginations, r \in ReleaseCounts}
\* the page responses drawn while the hook is followed
HookPageData ==
  {d \in PageData :
     /\ (d.pagination.pages # None => d.pagination.pages[1] <= MaxHookPages)
     /\ (d.releases # None => d.releases[1] <= MaxHookItems)}
IdentityData == [username |-> "jon", pagination |-> NoPagination, releases |-> None]

\* data.releases ?? []  (its length)
releasesOf(data) == IF data.releases = None THEN 0 ELSE data.releases[1]

\* ------------------------------------------------------------------- apiGet
\* the catch block of apiGet: TRUE when it sleeps and continues the loop
retryAfterFailure(err, att, retries) ==
  \/ /\ err.isAxiosError
     /\ err.response.present
     /\ shouldRetry(err.response.status)
     /\ att < retries - 1
  \/ /\ ~err.response.present
     /\ att < retries - 1

\* a catch block that keeps the first error it saw
keepFirstError(prev, err) == IF prev.kind = "none" THEN err ELSE prev

\* lastError = err instanceof Error ? err : new Error(String(err)); every
\* rejection of client.get is an Error
catchError(prev, err) == err

\* wait chosen by the catch block when it retries
retryDelay(err, att) ==
  IF err.isAxiosError /\ err.response.present
  THEN getRetryDelay(err.response, att)
  ELSE getRetryDelay(NoResponse, att)

\* Retry-After as a server sends it: absent, delay-seconds, an HTTP-date, or
\* something else
RetryAfterHeaders == RetryAfterVals \cup {"0", "120", "Wed, 21 Oct 2015 07:28:00 GMT"}
\* the rejections of one client.get of apiGet
CaughtErrors ==
  {HttpError(st, ra, 0) : st \in {404, 429, 503}, ra \in RetryAfterHeaders}
    \cup {NetworkError(0), PlainError(0)}

\* the catch block of apiGet at loop index failedAttempt, called with enough
\* retries for another attempt to follow: it computes the delay it sleeps for
ApiGetCatch ==
  /\ retryWait = None
  /\ retryAfterFailure(failedError, failedAttempt, MaxAttempt + 2)
  /\ retryWait' = Some(retryDelay(failedError, failedAttempt))
  /\ UNCHANGED <<failedError, failedAttempt>>
  /\ UNCHANGED <<netVars, apiVars, genVars, consVars, hookVars, histVars,
                 sortVars, lpVars, rowVars, secVars, txtVars, besidesWait>>

\* apiGet is entered: attempt = 0 and the first client.get is sent
ApiGetBegin(for) ==
  /\ api' = "inflight"
  /\ apiFor' = for
  /\ attempt' = 0
  /\ lastError' = NoError
  /\ delay' = 0
  /\ apiData' = None
  /\ inflight' = inflight + 1
  /\ httpCount' = 1
  /\ httpOk' = FALSE
  /\ lastAttemptErr' = NoError
  /\ waited' = FALSE

\* the caller of apiGet has taken its result: the locals of the call are gone
ApiGetEnd ==
  /\ api' = "idle"
  /\ apiFor' = "none"
  /\ attempt' = 0
  /\ lastError' = NoError
  /\ delay' = 0
  /\ apiData' = None
  /\ httpCount' = 0
  /\ httpOk' = FALSE
  /\ lastAttemptErr' = NoError
  /\ waited' = FALSE
  /\ UNCHANGED inflight

\* What a collection entry is: one without basic_information, a CD, or a
\* vinyl LP.
ItemKinds == {"nobasic", "notlp", "lp"}

\* item.basic_information of an entry of that kind (its formats)
HookBasic(kind) ==
  IF kind = "nobasic" THEN None
  ELSE Some([formats |->
               Some(<<IF kind = "lp"
                      THEN [name |-> Some(<<"V", "i", "n", "y", "l">>),
                            descriptions |-> Some(<<<<"L", "P">>>>)]
                      ELSE [name |-> Some(<<"C", "D">>), descriptions |-> None]>>)])

\* a loop body that only looks for basic_information
keepsAnyFormat(bi) == bi # None

\* the loop body goes on to rows.push: not (!basic || !isLp33(basic))
keeps(bi) == bi # None /\ isLp33(bi[1], FALSE)

\* the kinds of the n entries of a page response to fetchCollection
entryKinds(n) == IF caller = "hook" THEN [1..n -> ItemKinds] ELSE {<<>>}

\* <<page, index>> of the entries of page p, of the kinds ks, that have
\* basic_information and pass isLp33
RECURSIVE qualifyingOf(_, _)
qualifyingOf(p, ks) ==
  IF ks = <<>> THEN <<>>
  ELSE LET front == qualifyingOf(p, SubSeq(ks, 1, Len(ks) - 1))
           bi == HookBasic(ks[Len(ks)])
       IN IF bi # None /\ isLp33(bi[1], FALSE) THEN Append(front, <<p, Len(ks)>>)
          ELSE front

\* client.get resolves: apiGet returns response.data
HttpSuccess(data) ==
  /\ api = "inflight"
  /\ inflight' = inflight - 1
  /\ api' = "returned"
  /\ apiData' = Some(data)
  /\ httpOk' = TRUE
  /\ IF apiFor = "page"
     THEN /\ respItems' = releasesOf(data)
          /\ \E ks \in entryKinds(releasesOf(data)) :
               /\ respKinds' = ks
               /\ qualifying' = qualifying \o qualifyingOf(page, ks)
          /\ handed' = 0
          /\ okPages' = okPages + 1
          /\ firstReported' = IF firstReported = None THEN Some(data.pagination)
                              ELSE firstReported
          /\ anyFetched' = (anyFetched \/ releasesOf(data) > 0)
          /\ malformed' = (malformed \/ ~data.pagination.present
                                     \/ data.pagination.pages = None)
     ELSE UNCHANGED <<respItems, respKinds, qualifying, handed, okPages, firstReported, anyFetched, malformed>>
  /\ UNCHANGED <<apiFor, attempt, lastError, delay>>
  /\ UNCHANGED <<genVars, consVars, hookVars, pureVars>>
  /\ UNCHANGED <<requested, httpCount, lastAttemptErr, waited, failed, errOutcomes>>

\* client.get rejects with err: the catch block of apiGet
HttpFailure(err) ==
  /\ api = "inflight"
  /\ inflight' = inflight - 1
  /\ lastError' = catchError(lastError, err)
  /\ lastAttemptErr' = err
  /\ IF retryAfterFailure(err, attempt, DefaultRetries)
     THEN /\ api' = "sleeping"
          /\ delay' = retryDelay(err, attempt)
          /\ waited' = TRUE
          /\ UNCHANGED failed
     ELSE /\ api' = "thrown"
          /\ failed' = TRUE
          /\ UNCHANGED <<delay, waited>>
  /\ UNCHANGED <<apiFor, attempt, apiData>>
  /\ UNCHANGED <<genVars, consVars, hookVars, pureVars>>
  /\ UNCHANGED <<requested, firstReported, okPages, httpCount, httpOk, respItems, respKinds, qualifying, handed,
                 anyFetched, malformed, errOutcomes>>

\* the sleep ends: continue, attempt++, the next client.get is sent
RetryTimer ==
  /\ api = "sleeping"
  /\ attempt' = attempt + 1
  /\ IF attempt + 1 < DefaultRetries
     THEN /\ api' = "inflight"
          /\ inflight' = inflight + 1
          /\ httpCount' = httpCount + 1
          /\ waited' = FALSE
          /\ UNCHANGED failed
     ELSE \* the loop ends: throw lastError ?? new Error(...)
          /\ api' = "thrown"
          /\ failed' = TRUE
          /\ UNCHANGED <<inflight, httpCount, waited>>
  /\ UNCHANGED <<apiFor, lastError, delay, apiData>>
  /\ UNCHANGED <<genVars, consVars, hookVars, pureVars>>
  /\ UNCHANGED <<requested, firstReported, okPages, httpOk, lastAttemptErr, respItems, respKinds, qualifying, handed,
                 anyFetched, malformed, errOutcomes>>

\* ------------------------------------------- iterateCollection / iterateWantlist
\* a generator that takes the page count from every response
relearnTotalPages(tp, pagination) ==
  Some(IF pagination.pages = None THEN 1 ELSE pagination.pages[1])

\* if (totalPages === null) totalPages = data.pagination.pages ?? 1
learnTotalPages(tp, pagination) ==
  IF tp = None
  THEN Some(IF pagination.pages = None THEN 1 ELSE pagination.pages[1])
  ELSE tp

\* the two break tests after page += 1
loopEnds(np, mp, tp) ==
  \/ (mp # None /\ np > mp[1])
  \/ (tp # None /\ np > tp[1])

\* fetchCollectionPage(client, username, folderId, p, perPage)
RequestPage(p) ==
  /\ ApiGetBegin("page")
  /\ requested' = Append(requested, p)

\* page += 1 and the break tests; then the next turn of while (true)
AfterPage(tp) ==
  LET np == page + 1 IN
  /\ page' = np
  /\ pending' = 0
  /\ IF loopEnds(np, maxPages, tp)
     THEN /\ gen' = "completed"
          /\ ApiGetEnd
          /\ UNCHANGED requested
     ELSE /\ gen' = "awaiting"
          /\ RequestPage(np)

\* a loop that leaves the page one item early
moreItemsButLast(left) == left > 2

\* for (const item of data.releases ?? []): another item follows the one just
\* consumed
moreItems(left) == left > 1

\* the generator is resumed at its yield: the next item, or the end of the page
ResumeAtYield ==
  /\ UNCHANGED <<totalPages, maxPages, genError>>
  /\ IF moreItems(pending)
     THEN /\ pending' = pending - 1
          /\ handed' = handed + 1
          /\ gen' = "yield"
          /\ ApiGetEnd
          /\ UNCHANGED <<page, requested>>
     ELSE /\ AfterPage(totalPages)
          /\ UNCHANGED handed

\* await fetchCollectionPage(...) resolves inside the generator
GenResume ==
  /\ gen = "awaiting"
  /\ api = "returned"
  /\ apiFor = "page"
  /\ LET data == apiData[1] IN
     IF totalPages = None /\ ~data.pagination.present
     THEN \* data.pagination.pages throws a TypeError
          /\ gen' = "threw"
          /\ genError' = TypeErrorPages
          /\ ApiGetEnd
          /\ UNCHANGED <<page, totalPages, maxPages, pending, requested, handed>>
     ELSE LET tp == learnTotalPages(totalPages, data.pagination)
              n == releasesOf(data)
          IN /\ totalPages' = tp
             /\ UNCHANGED <<maxPages, genError>>
             /\ IF n > 0
                THEN /\ gen' = "yield"
                     /\ pending' = n
                     /\ handed' = 1
                     /\ ApiGetEnd
                     /\ UNCHANGED <<page, requested>>
                ELSE /\ AfterPage(tp)
                     /\ UNCHANGED handed
  /\ UNCHANGED <<consVars, hookVars, pureVars>>
  /\ UNCHANGED <<firstReported, okPages, respItems, respKinds, qualifying, anyFetched, failed, malformed, errOutcomes>>

\* a generator that swallows the rejection and ends the sequence
GenSwallow ==
  /\ gen = "awaiting"
  /\ api = "thrown"
  /\ apiFor = "page"
  /\ gen' = "completed"
  /\ genError' = NoError
  /\ ApiGetEnd
  /\ UNCHANGED <<page, totalPages, maxPages, pending>>
  /\ UNCHANGED <<consVars, hookVars, pureVars>>
  /\ UNCHANGED <<requested, firstReported, okPages, respItems, respKinds, qualifying, handed, anyFetched, failed,
                 malformed, errOutcomes>>

\* await fetchCollectionPage(...) rejects inside the generator
GenThrow ==
  /\ gen = "awaiting"
  /\ api = "thrown"
  /\ apiFor = "page"
  /\ gen' = "threw"
  /\ genError' = lastError
  /\ ApiGetEnd
  /\ UNCHANGED <<page, totalPages, maxPages, pending>>
  /\ UNCHANGED <<consVars, hookVars, pureVars>>
  /\ UNCHANGED <<requested, firstReported, okPages, respItems, respKinds, qualifying, handed, anyFetched, failed,
                 malformed, errOutcomes>>

\* ------------------------------------------------ a consumer of the generator
\* next(): the first call starts the body, a later one resumes it at the yield
ConsumerPull ==
  /\ caller = "direct"
  /\ consumer = "pulling"
  /\ \/ /\ gen = "start"
        /\ gen' = "awaiting"
        /\ RequestPage(page)
        /\ UNCHANGED <<page, totalPages, maxPages, pending, genError, handed>>
     \/ /\ gen = "yield"
        /\ ResumeAtYield
  /\ UNCHANGED <<consVars, hookVars, pureVars>>
  /\ UNCHANGED <<firstReported, okPages, respItems, respKinds, qualifying, anyFetched, failed, malformed, errOutcomes>>

\* break inside for await: return() ends the generator at its yield
ConsumerBreak ==
  /\ caller = "direct"
  /\ consumer = "pulling"
  /\ gen = "yield"
  /\ consumer' = "stopped"
  /\ gen' = "returned"
  /\ UNCHANGED <<caller, page, totalPages, maxPages, pending, genError>>
  /\ UNCHANGED <<netVars, apiVars, hookVars, histVars, pureVars>>


\* ------------------------------------------------------------------- sections
\* what getSectionLetter returns: a letter, a purely numeric label, '#' or '?'
SectionLetters == {<<"A">>, <<"B">>, <<"9">>, <<"1", "0">>, <<"#">>, <<"?">>}

\* /^\d+$/.test(a)
IsNumeric(a) == a # <<>> /\ \A i \in 1..Len(a) : a[i] \in Digits

\* parseInt(a, 10) of a digit string
RECURSIVE ParseInt(_)
ParseInt(a) ==
  IF a = <<>> THEN 0
  ELSE 10 * ParseInt(SubSeq(a, 1, Len(a) - 1))
         + (CHOOSE d \in 0..9 : <<"0", "1", "2", "3", "4", "5", "6", "7", "8", "9">>[d + 1] = a[Len(a)])

\* the comparator of [...map.keys()].sort
compareKeys(a, b) ==
  IF a = <<"#">> THEN 1
  ELSE IF b = <<"#">> THEN -1
  ELSE IF a = <<"?">> THEN 1
  ELSE IF b = <<"?">> THEN -1
  ELSE IF IsNumeric(a) /\ IsNumeric(b) THEN ParseInt(a) - ParseInt(b)
  ELSE LocaleCompare(a, b)

\* [...map.keys()]: the letters in the order of their first row
RECURSIVE mapKeys(_)
mapKeys(ls) ==
  IF ls = <<>> THEN <<>>
  ELSE LET front == mapKeys(SubSeq(ls, 1, Len(ls) - 1))
           l == ls[Len(ls)]
       IN IF \E i \in 1..Len(front) : front[i] = l THEN front ELSE Append(front, l)

\* Array.prototype.sort (stable) with compareKeys
RECURSIVE insertKey(_, _)
insertKey(ks, k) ==
  IF ks = <<>> THEN <<k>>
  ELSE IF compareKeys(ks[Len(ks)], k) > 0
       THEN Append(insertKey(SubSeq(ks, 1, Len(ks) - 1), k), ks[Len(ks)])
       ELSE Append(ks, k)
RECURSIVE sortKeys(_)
sortKeys(ks) ==
  IF ks = <<>> THEN <<>>
  ELSE insertKey(sortKeys(SubSeq(ks, 1, Len(ks) - 1)), ks[Len(ks)])

\* the sections memo: data holds the positions in filteredRows of a section's rows
buildSections(ls, show) ==
  IF ~show \/ ls = <<>> THEN <<>>
  ELSE LET keys == sortKeys(mapKeys(ls))
       IN [i \in 1..Len(keys) |->
             [title |-> keys[i],
              data |-> SelectSeq([k \in 1..Len(ls) |-> k], LAMBDA k : ls[k] = keys[i])]]

\* const sections = useMemo(...)
Sections ==
  /\ sections = None
  /\ sections' = Some(buildSections(letters, showDividers))
  /\ UNCHANGED <<letters, showDividers, sortVars, lpVars, rowVars, txtVars,
               sideVars>>
  /\ UNCHANGED <<netVars, apiVars, genVars, consVars, hookVars, histVars>>

\* the section letter of a row: the upper-cased first character of the sort key
\* of the dimension when it is a letter, '#' when the key is empty or starts
\* with another character
getSectionLetter(r, sb) ==
  LET key == IF sb = "title" THEN r.sort_title ELSE r.sort_artist
  IN IF key # <<>> /\ (\E i \in 1..26 : UpperChars[i] = ToUpperChar(key[1]))
     THEN <<ToUpperChar(key[1])>>
     ELSE <<"#">>

\* the list view with an empty search box: filteredRows is sortedRows, the
\* memo sortRows(state.rows, variousPolicy, sortBy); then the sections memo
ListSections ==
  /\ sorted # None
  /\ sections = None
  /\ letters' = [i \in 1..Len(sorted[1]) |-> getSectionLetter(sorted[1][i], sortBy)]
  /\ sections' = Some(buildSections(letters', showDividers))
  /\ UNCHANGED <<showDividers, sortVars, lpVars, rowVars, txtVars, sideVars>>
  /\ UNCHANGED <<netVars, apiVars, genVars, consVars, hookVars, histVars>>

\* --------------------------------------------------------------------- export
\* String(n) of a non-negative integer
RECURSIVE NumberToString(_)
NumberToString(n) ==
  LET last == <<<<"0", "1", "2", "3", "4", "5", "6", "7", "8", "9">>[(n % 10) + 1]>>
  IN IF n < 10 THEN last ELSE NumberToString(n \div 10) \o last

\* getDividerLine(r, current, dividers): next and line, None for null
getDividerLine(r, current, dv) ==
  LET sa == Trim(r.sort_artist)
      first == IF sa # <<>> THEN ToUpperChar(sa[1]) ELSE "#"
      letter == IF \E i \in 1..26 : UpperChars[i] = first THEN <<first>> ELSE <<"#">>
  IN IF ~dv THEN [next |-> current, line |-> None]
     ELSE IF current # Some(letter)
          THEN [next |-> Some(letter),
                line |-> Some(<<"=", "=", "=", " ">> \o letter \o <<" ", "=", "=", "=">>)]
          ELSE [next |-> current, line |-> None]

\* formatTxtLine(r, dividers)
formatTxtLine(r) ==
  LET yearStr == IF r.year # None /\ r.year[1] # 0
                 THEN <<" ", "(">> \o NumberToString(r.year[1]) \o <<")">>
                 ELSE <<>>
      labelPart == IF r.label # <<>> \/ r.catno # <<>>
                   THEN Trim(<<" ", "[">> \o r.label \o <<" ">> \o r.catno \o <<"]">>)
                   ELSE <<>>
  IN Trim(r.artist_display \o <<" ", "--", " ">> \o r.title \o yearStr \o labelPart)

\* the for loop of generateTxt from rows[k] on: the lines pushed
RECURSIVE txtLines(_, _, _, _)
txtLines(rs, k, currentDiv, dv) ==
  IF k > Len(rs) THEN <<>>
  ELSE LET d == getDividerLine(rs[k], currentDiv, dv)
       IN (IF d.line # None /\ d.line[1] # <<>> THEN <<d.line[1]>> ELSE <<>>)
            \o <<formatTxtLine(rs[k])>>
            \o txtLines(rs, k + 1, d.next, dv)

\* lines.join('\n')
RECURSIVE JoinLines(_)
JoinLines(ls) ==
  IF ls = <<>> THEN <<>>
  ELSE IF Len(ls) = 1 THEN ls[1]
  ELSE ls[1] \o <<"\n">> \o JoinLines(Tail(ls))

\* generateTxt(rows, dividers)
generateTxt(rs, dv) == JoinLines(txtLines(rs, 1, None, dv))

\* rows as buildReleaseRow makes them: with and without year, label and catno
TxtRowPool ==
  LET Entry(name, title, year, label) ==
        [basic_information |->
           [artists |-> <<[name |-> name, join |-> <<>>]>>, artist |-> <<>>,
            title |-> title, year |-> year, labels |-> label,
            id |-> Some(Len(name) + Len(title))]]
  IN
  {buildReleaseRow(e, <<>>) : e \in
     {Entry(<<"A", "i", "r">>, <<"M", "o", "o", "n">>, Some(1998),
            <<[name |-> <<"S", "o", "u", "r", "c", "e">>, catno |-> <<"V", "2">>]>>),
      Entry(<<"A", "i", "r">>, <<"1", "0", " ", "0", "0", "0", " ", "H", "z">>, Some(0),
            <<[name |-> <<>>, catno |-> <<"V", "3">>]>>),
      Entry(<<"B", "o", "a", "r", "d", "s", " ", "o", "f", " ", "C", "a", "n", "a", "d", "a", " ", "(", "2", ")">>,
            <<"G", "e", "o", "g", "a", "d", "d", "i">>, None, <<>>),
      Entry(<<"C", "a", "r", "i", "b", "o", "u">>, <<"S", "w", "i", "m">>, Some(2010),
            <<[name |-> <<"M", "e", "r", "g", "e">>, catno |-> <<>>]>>),
      Entry(<<"E_acute", "d", "i", "t", "h", " ", "P", "i", "a", "f">>, <<"O", "l", "y", "m", "p", "i", "a">>,
            Some(1961), <<>>),
      Entry(<<"1", "0", "c", "c">>, <<"T", "h", "e", " ", "H", "i", "t", "s">>, None,
            <<[name |-> <<"U", "K">>, catno |-> <<"U", "K", "S", " ", "5", "3">>]>>)}}

\* const content = generateTxt(rows, dividers)
GenerateTxt ==
  /\ txt = None
  /\ txt' = Some(generateTxt(txtRows, dividers))
  /\ UNCHANGED <<txtRows, dividers, sortVars, lpVars, rowVars, secVars,
               sideVars>>
  /\ UNCHANGED <<netVars, apiVars, genVars, consVars, hookVars, histVars>>

\* escape of generateCsv: val is a string, or a year (None is null)
escape(val) ==
  IF Includes(val, <<",">>) \/ Includes(val, <<"\"">>) \/ Includes(val, <<"\n">>)
  THEN <<"\"">>
         \o JoinLines([i \in 1..Len(val) |-> IF val[i] = "\"" THEN <<"\"", "\"">> ELSE <<val[i]>>])
         \o <<"\"">>
  ELSE val

\* generateCsv(rows), with the columns of the rows modelled here: the lines
\* before lines.join
generateCsv(rs) ==
  <<<<"Artist,Title,Year,Label,CatNo">>>>
    \o [i \in 1..Len(rs) |->
          escape(rs[i].artist_display) \o <<",">> \o escape(rs[i].title) \o <<",">>
            \o escape(IF rs[i].year = None THEN <<>> ELSE NumberToString(rs[i].year[1]))
            \o <<",">> \o escape(rs[i].label) \o <<",">> \o escape(rs[i].catno)]

\* generateJson(rows): the array handed to JSON.stringify
generateJson(rs) ==
  [i \in 1..Len(rs) |->
     [artist |-> rs[i].artist_display, title |-> rs[i].title, year |-> rs[i].year,
      label |-> rs[i].label, catno |-> rs[i].catno,
      sort_artist |-> rs[i].sort_artist, sort_title |-> rs[i].sort_title]]

\* the switch of exportAndShare(rows, format, dividers = false)
exportContent(rs, format) ==
  CASE format = "txt" -> <<generateTxt(rs, FALSE)>>
    [] format = "csv" -> generateCsv(rs)
    [] format = "json" -> generateJson(rs)

\* ------------------------------------------------------- credential storage
\* DiscogsCredentials: a 'pat' credential has no secret member
PatCredentials(token) == [type |-> "pat", token |-> token, secret |-> None]
OAuthCredentials(token, secret) == [type |-> "oauth", token |-> token, secret |-> Some(secret)]

\* JSON text of an object, as the list of its members <<name, value>> in the
\* order JSON.stringify writes them
JsonStringify(cred) ==
  <<<<"type", <<cred.type>>>>, <<"token", cred.token>>>>
    \o (IF cred.secret = None THEN <<>> ELSE <<<<"secret", cred.secret[1]>>>>)

\* obj[name] of the object JSON.parse gives (None is undefined)
Member(obj, name) ==
  LET hits == {i \in DOMAIN obj : obj[i][1] = name}
  IN IF hits = {} THEN None ELSE Some(obj[CHOOSE i \in hits : TRUE][2])

\* json is the stored item (None is null)
parseCredentials(json) ==
  IF json = None THEN None
  ELSE
    LET obj == json[1]
        type == Member(obj, "type")
        token == Member(obj, "token")
        secret == Member(obj, "secret")
    IN IF type = Some(<<"pat">>) /\ token # None /\ Trim(token[1]) # <<>>
       THEN Some(PatCredentials(Trim(token[1])))
       ELSE IF /\ type = Some(<<"oauth">>)
               /\ token # None
               /\ secret # None
               /\ Trim(token[1]) # <<>>
               /\ Trim(secret[1]) # <<>>
       THEN Some(OAuthCredentials(Trim(token[1]), Trim(secret[1])))
       ELSE None

\* what migrateFromLegacy returns (cred) and the two items as it leaves them
migrateFromLegacy(auth, legacy) ==
  IF legacy # None /\ Trim(legacy[1]) # <<>>
  THEN [cred |-> Some(PatCredentials(Trim(legacy[1]))),
        auth |-> Some(JsonStringify(PatCredentials(Trim(legacy[1])))),
        legacy |-> None]
  ELSE [cred |-> None, auth |-> auth, legacy |-> legacy]

getStoredCredentials(auth, legacy) ==
  IF auth = None
  THEN migrateFromLegacy(auth, legacy)
  ELSE [cred |-> parseCredentials(auth), auth |-> auth, legacy |-> legacy]

\* None is null
getStoredToken(auth, legacy) ==
  LET cred == getStoredCredentials(auth, legacy).cred
  IN IF cred = None THEN None ELSE Some(cred[1].token)

\* tokens and secrets handed to the storage functions
TokenPool == {<<"t", "1">>, <<" ", "t", "2", " ">>, <<" ">>, <<>>}
CredentialsPool ==
  {PatCredentials(t) : t \in TokenPool}
    \cup {OAuthCredentials(t, s) : t \in TokenPool, s \in {<<"s", "1">>, <<" ">>}}

StorageFrame ==
  UNCHANGED <<netVars, apiVars, genVars, consVars, hookVars, histVars,
              sortVars, lpVars, rowVars, secVars, txtVars, besidesAuth>>

GetStoredToken ==
  LET r == getStoredCredentials(authItem, legacyItem)
  IN /\ tokenCall' = Some([auth |-> authItem, legacy |-> legacyItem, cred |-> r.cred,
                           token |-> getStoredToken(authItem, legacyItem)])
     /\ authItem' = r.auth
     /\ legacyItem' = r.legacy
     /\ StorageFrame

SetStoredCredentials ==
  \E cred \in CredentialsPool :
    /\ authItem' = Some(JsonStringify(cred))
    /\ UNCHANGED <<legacyItem, tokenCall>>
    /\ StorageFrame

SetStoredToken ==
  \E token \in TokenPool :
    /\ authItem' = Some(JsonStringify(PatCredentials(Trim(token))))
    /\ UNCHANGED <<legacyItem, tokenCall>>
    /\ StorageFrame

ClearStoredCredentials ==
  /\ authItem' = None
  /\ legacyItem' = None
  /\ UNCHANGED tokenCall
  /\ StorageFrame

\* ------------------------------------------------------------- useCollection
Idle == [status |-> "idle", message |-> None, error |-> None, rows |-> <<>>, username |-> ""]
Loading(m) ==
  [status |-> "loading", message |-> Some(m), error |-> None, rows |-> <<>>, username |-> ""]
ErrorState(m) ==
  [status |-> "error", message |-> None, error |-> Some(m), rows |-> <<>>, username |-> ""]
Success(rs, u) ==
  [status |-> "success", message |-> None, error |-> None, rows |-> rs, username |-> u]

\* the i-th item of page p: an LP with its own release id, by Zappa on the odd
\* pages and by Abba on the even ones
HookItem(p, i) ==
  [basic_information |->
     [artists |-> <<[name |-> IF p % 2 = 1 THEN <<"Z", "a", "p", "p", "a">>
                                           ELSE <<"A", "b", "b", "a">>,
                     join |-> <<>>]>>,
      artist |-> <<>>,
      title |-> <<"G", "o", "l", "d">>,
      year |-> None,
      labels |-> <<>>,
      id |-> Some(10 * p + i)]]

\* buildReleaseRow(item) of the i-th item of page p
HookRow ==
  [p \in 1..MaxHookPages |->
     [i \in 0..MaxHookItems |-> buildReleaseRow(HookItem(p, i), <<>>)]]

\* a catch block that leaves the loading state in place
catchStateLoading(err) == Loading(Message(err))

\* catch (err): setState({ status: 'error', error: message })
catchState(err) == ErrorState(Message(err))

\* useEffect of the Collection screen: credentials && state.status === 'idle'
\* calls fetchCollection, which runs up to its first await
FetchEffect ==
  /\ caller = "hook"
  /\ state.status = "idle"
  /\ fetches < MaxFetches
  /\ fetches' = fetches + 1
  /\ state' = Loading(<<"Connecting to Discogs", 0>>)
  /\ fpc' = "identity"
  /\ ApiGetBegin("identity")
  /\ rows' = <<>>
  /\ count' = 0
  /\ gen' = "none"
  /\ page' = 1
  /\ totalPages' = None
  /\ pending' = 0
  /\ genError' = NoError
  /\ requested' = <<>>
  /\ firstReported' = None
  /\ okPages' = 0
  /\ respItems' = 0
  /\ respKinds' = <<>>
  /\ qualifying' = <<>>
  /\ handed' = 0
  /\ anyFetched' = FALSE
  /\ failed' = FALSE
  /\ malformed' = FALSE
  /\ UNCHANGED <<maxPages, consVars, errOutcomes, pureVars>>

\* await getIdentity(client) resolves: the second setState, then
\* iterateCollection(client, identity.username) and its first next()
IdentityResolved ==
  /\ caller = "hook"
  /\ fpc = "identity"
  /\ api = "returned"
  /\ apiFor = "identity"
  /\ state' = Loading(<<"Fetching collection", 0>>)
  /\ fpc' = "iterating"
  /\ gen' = "awaiting"
  /\ page' = 1
  /\ totalPages' = None
  /\ maxPages' = None
  /\ RequestPage(1)
  /\ UNCHANGED <<pending, genError, consVars, rows, count, fetches, pureVars>>
  /\ UNCHANGED <<firstReported, okPages, respItems, respKinds, qualifying, handed, anyFetched, failed,
                 malformed, errOutcomes>>

\* one turn of for await: the loop body, then next() resumes the generator
ForAwaitItem ==
  /\ caller = "hook"
  /\ fpc = "iterating"
  /\ gen = "yield"
  /\ IF keeps(HookBasic(respKinds[handed]))
     THEN /\ rows' = Append(rows, HookRow[page][handed])
          /\ count' = count + 1
          /\ state' = IF (count + 1) % ProgressEvery = 0
                      THEN Loading(<<"Loaded LPs", count + 1>>)
                      ELSE state
     ELSE UNCHANGED <<rows, count, state>>
  /\ respKinds' = [respKinds EXCEPT ![handed] = "taken"]
  /\ ResumeAtYield
  /\ UNCHANGED <<fpc, fetches, consVars, pureVars>>
  /\ UNCHANGED <<firstReported, okPages, respItems, qualifying, anyFetched, failed, malformed, errOutcomes>>

\* the generator is done: sortRows(rows, 'last', 'artist') and the success state
ForAwaitDone ==
  /\ caller = "hook"
  /\ fpc = "iterating"
  /\ gen = "completed"
  /\ state' = Success(sortRows(rows, "last", "artist"), IdentityData.username)
  /\ fpc' = "finished"
  /\ gen' = "none"
  /\ UNCHANGED <<page, totalPages, maxPages, pending, genError>>
  /\ UNCHANGED <<netVars, apiVars, consVars, rows, count, fetches, histVars, pureVars>>

\* getIdentity or the generator rejected: the catch block
FetchCatch ==
  /\ caller = "hook"
  /\ \/ /\ fpc = "identity"
        /\ api = "thrown"
        /\ state' = catchState(lastError)
        /\ errOutcomes' = errOutcomes \cup {<<anyFetched, catchState(lastError)>>}
        /\ ApiGetEnd
        /\ UNCHANGED <<gen, genError>>
     \/ /\ fpc = "iterating"
        /\ gen = "threw"
        /\ state' = catchState(genError)
        /\ errOutcomes' = errOutcomes \cup {<<anyFetched, catchState(genError)>>}
        /\ gen' = "none"
        /\ genError' = NoError
        /\ UNCHANGED <<netVars, apiVars, httpCount, httpOk, lastAttemptErr, waited>>
  /\ fpc' = "finished"
  /\ UNCHANGED <<page, totalPages, maxPages, pending, consVars, rows, count, fetches,
                 pureVars>>
  /\ UNCHANGED <<requested, firstReported, okPages, respItems, respKinds, qualifying, handed, anyFetched, failed,
                 malformed>>

\* const reset = () => setState({ status: 'idle' })
reset == state' = Idle

\* the Try Again button of the error view
TryAgain ==
  /\ caller = "hook"
  /\ state.status = "error"
  /\ reset
  /\ UNCHANGED <<netVars, apiVars, genVars, consVars, fpc, rows, count, fetches,
                 histVars, pureVars>>

\* the Refresh button of the list view
Refresh ==
  /\ caller = "hook"
  /\ state.status = "success"
  /\ reset
  /\ UNCHANGED <<netVars, apiVars, genVars, consVars, fpc, rows, count, fetches,
                 histVars, pureVars>>

\* --------------------------------------- overlapping fetchCollection calls
\* The hook keeps one state for all fetchCollection calls; a call keeps its
\* client, identity, rows and count in its own closure. runs[k] is call k.
RaceFrame ==
  UNCHANGED <<netVars, apiVars, genVars, consVars, fpc, rows, count, histVars,
              sortVars, lpVars, rowVars, secVars, txtVars, besidesRace>>

\* setState(st) in call k
setStateBy(k, st) ==
  /\ state' = st
  /\ writer' = k

\* reset(): setState({ status: 'idle' }); every call made so far was started
\* before this reset
resetRuns ==
  /\ state' = Idle
  /\ writer' = 0
  /\ runs' = [k \in DOMAIN runs |-> [runs[k] EXCEPT !.superseded = TRUE]]

\* the effect: credentials && state.status === 'idle' calls fetchCollection,
\* which runs up to its first await
CallFetchCollection ==
  /\ state.status = "idle"
  /\ fetches < MaxFetches
  /\ fetches' = fetches + 1
  /\ runs' = Append(runs, [pc |-> "identity", rows |-> <<>>, superseded |-> FALSE])
  /\ setStateBy(fetches + 1, Loading(<<"Connecting to Discogs", 0>>))
  /\ UNCHANGED <<lpStrict, prevLpStrict, hasFetched>>
  /\ RaceFrame

\* await getIdentity(client) resolves in call k
RunIdentity(k) ==
  /\ runs[k].pc = "identity"
  /\ runs' = [runs EXCEPT ![k].pc = "iterating"]
  /\ setStateBy(k, Loading(<<"Fetching collection", 0>>))
  /\ UNCHANGED <<fetches, lpStrict, prevLpStrict, hasFetched>>
  /\ RaceFrame

\* one turn of for await in call k that pushes a row
RunItem(k) ==
  /\ runs[k].pc = "iterating"
  /\ Len(runs[k].rows) < MaxHookItems
  /\ runs' = [runs EXCEPT ![k].rows =
                Append(@, buildReleaseRow(HookItem(k, Len(@) + 1), <<>>))]
  /\ IF (Len(runs[k].rows) + 1) % ProgressEvery = 0
     THEN setStateBy(k, Loading(<<"Loaded LPs", Len(runs[k].rows) + 1>>))
     ELSE UNCHANGED <<state, writer>>
  /\ UNCHANGED <<fetches, lpStrict, prevLpStrict, hasFetched>>
  /\ RaceFrame

\* the generator of call k is done: the success state; the effect on
\* state.status then sets hasFetched
RunDone(k) ==
  /\ runs[k].pc = "iterating"
  /\ runs' = [runs EXCEPT ![k].pc = "finished"]
  /\ setStateBy(k, Success(sortRows(runs[k].rows, "last", "artist"), IdentityData.username))
  /\ hasFetched' = TRUE
  /\ UNCHANGED <<fetches, lpStrict, prevLpStrict>>
  /\ RaceFrame

\* getIdentity or the generator of call k rejects: the catch block
RunCatch(k) ==
  /\ runs[k].pc \in {"identity", "iterating"}
  /\ runs' = [runs EXCEPT ![k].pc = "finished"]
  /\ setStateBy(k, catchState(NetworkError(0)))
  /\ UNCHANGED <<fetches, lpStrict, prevLpStrict, hasFetched>>
  /\ RaceFrame

\* Try Again (error view) and Refresh (list view): reset()
PressReset ==
  /\ state.status \in {"error", "success"}
  /\ resetRuns
  /\ UNCHANGED <<fetches, lpStrict, prevLpStrict, hasFetched>>
  /\ RaceFrame

\* LP strict is toggled on the Settings screen, which is opened from the list
\* view; the effect on effectiveSettings.lpStrict resets the hook
ToggleLpStrict ==
  /\ hasFetched
  /\ lpStrict' = ~lpStrict
  /\ IF hasFetched /\ prevLpStrict # None /\ prevLpStrict[1] # lpStrict'
     THEN resetRuns
     ELSE UNCHANGED <<state, writer, runs>>
  /\ prevLpStrict' = Some(lpStrict')
  /\ UNCHANGED <<fetches, hasFetched>>
  /\ RaceFrame

\* ----------------------------------------------------------------- settings
DEFAULT_SETTINGS ==
  [sortBy |-> "artist", variousPolicy |-> "last", showDividers |-> TRUE, lpStrict |-> FALSE]

SettingsFields == <<"sortBy", "variousPolicy", "showDividers", "lpStrict">>

\* JSON.stringify(settings), as the list of its members
settingsJson(s) == [i \in DOMAIN SettingsFields |-> <<SettingsFields[i], s[SettingsFields[i]]>>]

\* { ...s, ...updates } for updates = { [u[1]]: u[2] }
spread(s, u) == [s EXCEPT ![u[1]] = u[2]]

\* loadSettings: raw is the stored item
loadSettings(raw) ==
  IF raw = None THEN DEFAULT_SETTINGS
  ELSE [f \in DOMAIN DEFAULT_SETTINGS |->
          IF Member(raw[1], f) = None THEN DEFAULT_SETTINGS[f] ELSE Member(raw[1], f)[1]]

SettingsFrame ==
  UNCHANGED <<netVars, apiVars, genVars, consVars, hookVars, histVars,
              sortVars, lpVars, rowVars, secVars, txtVars, besidesSet>>

\* the mount effect: loadSettings().then(setSettingsState), and the render
\* that follows
LoadSettings ==
  /\ settings = None
  /\ settings' = Some(loadSettings(storedSettings))
  /\ closure' = settings'
  /\ lastSet' = loadSettings(storedSettings)
  /\ UNCHANGED <<storedSettings, saving, updatesMade>>
  /\ SettingsFrame

\* updateSettings(updates) up to its await: the callback reads the settings
\* of the render that created it
updateSettings(u) ==
  /\ closure # None
  /\ updatesMade < MaxUpdates
  /\ settings' = Some(spread(closure[1], u))
  /\ saving' = Append(saving, settingsJson(spread(closure[1], u)))
  /\ lastSet' = spread(lastSet, u)
  /\ updatesMade' = updatesMade + 1
  /\ UNCHANGED <<closure, storedSettings>>
  /\ SettingsFrame

\* the rows of the Settings screen; a toggle passes the negation of the value
\* it was rendered with
SelectOption ==
  \/ \E v \in {"artist", "title", "year"} : updateSettings(<<"sortBy", v>>)
  \/ \E v \in {"normal", "last", "title"} : updateSettings(<<"variousPolicy", v>>)
  \/ closure # None /\ updateSettings(<<"showDividers", ~closure[1].showDividers>>)
  \/ closure # None /\ updateSettings(<<"lpStrict", ~closure[1].lpStrict>>)

\* the provider renders again with the new state: updateSettings is created
\* anew over it
Rerender ==
  /\ closure # settings
  /\ closure' = settings
  /\ UNCHANGED <<settings, storedSettings, saving, lastSet, updatesMade>>
  /\ SettingsFrame

\* AsyncStorage.setItem of one of the saves in flight completes
SaveCompletes ==
  \E i \in DOMAIN saving :
    /\ storedSettings' = Some(saving[i])
    /\ saving' = SubSeq(saving, 1, i - 1) \o SubSeq(saving, i + 1, Len(saving))
    /\ UNCHANGED <<settings, closure, lastSet, updatesMade>>
    /\ SettingsFrame

\* ---------------------------------------------------------- handleExport
ExportFrame ==
  UNCHANGED <<netVars, apiVars, genVars, consVars, fpc, rows, count, fetches, histVars,
              lpVars, rowVars, secVars, txtVars, besidesExport>>

\* a fetchCollection call ends in 'success' with the rows q of the collection
ListLoaded ==
  /\ state.status = "idle"
  /\ \E q \in SeqsUpTo(TxtRowPool, MaxRows) :
       state' = Success(sortRows(q, "last", "artist"), IdentityData.username)
  /\ UNCHANGED <<sortVars, exporting, exported>>
  /\ ExportFrame

\* an export button is pressed: handleExport(format) up to the file written by
\* exportAndShare(state.rows, format)
HandleExport ==
  \E format \in {"txt", "csv", "json"} :
    /\ ~exporting
    /\ state.status = "success"
    /\ Len(state.rows) # 0
    /\ exporting' = TRUE
    /\ exported' = Some([format |-> format, content |-> exportContent(state.rows, format)])
    /\ UNCHANGED <<state, sortVars>>
    /\ ExportFrame

\* the share sheet closes or exportAndShare rejects: finally setExporting(false)
ExportSettled ==
  /\ exporting
  /\ exporting' = FALSE
  /\ UNCHANGED <<state, sortVars, exported>>
  /\ ExportFrame

\* ------------------------------------------------------------- OAuth sign-in
\* URLSearchParams.get(name) over the members of a query (None is null)
searchParamsGet(query, name) == Member(query, name)

\* !x for a string or null
Falsy(x) == x = None \/ x[1] = ""

\* the answers of the two token endpoints: response.ok and the form-encoded body
TokenResponses ==
  {[ok |-> FALSE, body |-> <<>>],
   [ok |-> TRUE, body |-> <<>>],
   [ok |-> TRUE, body |-> <<<<"oauth_token", "tok">>>>],
   [ok |-> TRUE, body |-> <<<<"oauth_token", "tok">>, <<"oauth_token_secret", "">>>>],
   [ok |-> TRUE, body |-> <<<<"oauth_token", "tok">>, <<"oauth_token_secret", "sec">>>>]}

\* what WebBrowser.openAuthSessionAsync resolves with: url is the query of the
\* callback URL, None when the result has no url, <<>> when the URL has no '?'
BrowserResults ==
  {[type |-> t, url |-> u] :
     t \in {"success", "cancel"},
     u \in {None, Some(<<>>),
            Some(<<<<"oauth_token", "tok">>>>),
            Some(<<<<"oauth_verifier", "">>, <<"oauth_token", "tok">>>>),
            Some(<<<<"oauth_verifier", "ver">>, <<"oauth_token", "other">>>>),
            Some(<<<<"oauth_verifier", "ver">>, <<"oauth_token", "tok">>>>)}}

\* a flow that accepts any token in the callback
tokenMismatchIgnored(returnedToken, oauthToken) == FALSE

\* returnedToken !== oauthToken
tokenMismatch(returnedToken, oauthToken) == returnedToken # oauthToken

OAuthFrame ==
  UNCHANGED <<netVars, apiVars, genVars, consVars, hookVars, histVars,
              sortVars, lpVars, rowVars, secVars, txtVars,
              legacyItem, tokenCall, waitVars, raceVars, setVars, exportVars>>

\* a throw inside runDiscogsOAuthFlow reaches the catch block of the caller
throwError(msg) ==
  /\ flow' = "thrown"
  /\ authError' = Some(msg)

\* the OAuth button: handleOAuthSignIn up to the fetch of getRequestToken
HandleOAuthSignIn ==
  /\ flow = "none"
  /\ flowsStarted < MaxFlows
  /\ flowsStarted' = flowsStarted + 1
  /\ requestToken' = None
  /\ browserResult' = None
  /\ flowTokens' = None
  /\ IF Trim(consumerKey) = <<>>
     THEN /\ authError' = Some("OAuth not configured")
          /\ events' = <<>>
          /\ UNCHANGED <<flow, oauthLoading>>
     ELSE /\ oauthLoading' = TRUE
          /\ authError' = None
          /\ flow' = "request_token"
          /\ events' = <<"request_token">>
  /\ UNCHANGED <<consumerKey, authenticated, authItem>>
  /\ OAuthFrame

\* getRequestToken after its fetch, then openAuthSessionAsync
RequestTokenAnswered ==
  \E response \in TokenResponses :
    /\ flow = "request_token"
    /\ LET oauthToken == searchParamsGet(response.body, "oauth_token")
           oauthTokenSecret == searchParamsGet(response.body, "oauth_token_secret")
       IN IF ~response.ok
          THEN throwError("Discogs request token failed") /\ UNCHANGED <<requestToken, events>>
          ELSE IF Falsy(oauthToken) \/ Falsy(oauthTokenSecret)
          THEN throwError("Invalid Discogs response: missing token")
                 /\ UNCHANGED <<requestToken, events>>
          ELSE /\ requestToken' = Some([oauthToken |-> oauthToken[1],
                                        oauthTokenSecret |-> oauthTokenSecret[1]])
               /\ events' = Append(events, "browser")
               /\ flow' = "browser"
               /\ UNCHANGED authError
    /\ UNCHANGED <<consumerKey, browserResult, flowTokens, oauthLoading, authenticated,
                   flowsStarted, authItem>>
    /\ OAuthFrame

\* openAuthSessionAsync resolves: the checks of the callback, then the fetch of
\* getAccessToken
BrowserReturns ==
  \E result \in BrowserResults :
    /\ flow = "browser"
    /\ browserResult' = Some(result)
    /\ IF result.type # "success" \/ result.url = None
       THEN throwError("OAuth was cancelled or failed") /\ UNCHANGED events
       ELSE LET oauthVerifier == searchParamsGet(result.url[1], "oauth_verifier")
                returnedToken == searchParamsGet(result.url[1], "oauth_token")
            IN IF Falsy(oauthVerifier) \/ Falsy(returnedToken)
               THEN throwError("OAuth callback missing verifier or token") /\ UNCHANGED events
               ELSE IF tokenMismatch(returnedToken[1], requestToken[1].oauthToken)
               THEN throwError("OAuth token mismatch") /\ UNCHANGED events
               ELSE /\ flow' = "access_token"
                    /\ events' = Append(events, "access_token")
                    /\ UNCHANGED authError
    /\ UNCHANGED <<consumerKey, requestToken, flowTokens, oauthLoading, authenticated,
                   flowsStarted, authItem>>
    /\ OAuthFrame

\* getAccessToken after its fetch: runDiscogsOAuthFlow returns or throws
AccessTokenAnswered ==
  \E response \in TokenResponses :
    /\ flow = "access_token"
    /\ LET token == searchParamsGet(response.body, "oauth_token")
           secret == searchParamsGet(response.body, "oauth_token_secret")
       IN IF ~response.ok
          THEN throwError("Discogs access token failed") /\ UNCHANGED <<flowTokens, events>>
          ELSE IF Falsy(token) \/ Falsy(secret)
          THEN throwError("Invalid Discogs response: missing access token")
                 /\ UNCHANGED <<flowTokens, events>>
          ELSE /\ flowTokens' = Some([token |-> token[1], secret |-> secret[1]])
               /\ events' = Append(events, "tokens")
               /\ flow' = "returned"
               /\ UNCHANGED authError
    /\ UNCHANGED <<consumerKey, requestToken, browserResult, oauthLoading, authenticated,
                   flowsStarted, authItem>>
    /\ OAuthFrame

\* handleOAuthSignIn after runDiscogsOAuthFlow resolved: setStoredCredentials,
\* onAuthenticated, finally
SignInResolved ==
  /\ flow = "returned"
  /\ authItem' = Some(JsonStringify(OAuthCredentials(<<flowTokens[1].token>>,
                                                     <<flowTokens[1].secret>>)))
  /\ authenticated' = TRUE
  /\ events' = events \o <<"stored", "onAuthenticated">>
  /\ oauthLoading' = FALSE
  /\ flow' = "none"
  /\ UNCHANGED <<consumerKey, requestToken, browserResult, flowTokens, authError, flowsStarted>>
  /\ OAuthFrame

\* handleOAuthSignIn after runDiscogsOAuthFlow rejected: catch, finally
SignInRejected ==
  /\ flow = "thrown"
  /\ events' = Append(events, "error")
  /\ oauthLoading' = FALSE
  /\ flow' = "none"
  /\ UNCHANGED <<consumerKey, requestToken, browserResult, flowTokens, authError,
                 authenticated, flowsStarted, authItem>>
  /\ OAuthFrame

\* --------------------------------------------------------------- sortRows call
\* sortRows(rows, variousPolicy, sortBy)
SortRows ==
  /\ sorted = None
  /\ sorted' = Some(sortRows(inRows, variousPolicy, sortBy))
  /\ UNCHANGED <<inRows, variousPolicy, sortBy, lpVars, rowVars, secVars, txtVars, sideVars>>
  /\ UNCHANGED <<netVars, apiVars, genVars, consVars, hookVars, histVars>>

\* ------------------------------------------------------------ specifications
\* values of maxPages a caller passes: undefined or a number
MaxPagesArgs == {None} \cup {Some(k) : k \in 0..MaxTotalPages}

FetchIdle ==
  /\ inflight = 0
  /\ api = "idle"
  /\ apiFor = "none"
  /\ attempt = 0
  /\ lastError = NoError
  /\ delay = 0
  /\ apiData = None
  /\ page = 1
  /\ totalPages = None
  /\ pending = 0
  /\ genError = NoError
  /\ state = Idle
  /\ fpc = "none"
  /\ rows = <<>>
  /\ count = 0
  /\ fetches = 0
  /\ requested = <<>>
  /\ firstReported = None
  /\ okPages = 0
  /\ httpCount = 0
  /\ httpOk = FALSE
  /\ lastAttemptErr = NoError
  /\ waited = FALSE
  /\ respItems = 0
  /\ respKinds = <<>>
  /\ qualifying = <<>>
  /\ handed = 0
  /\ anyFetched = FALSE
  /\ failed = FALSE
  /\ malformed = FALSE
  /\ errOutcomes = {}

SortIdle ==
  /\ inRows = <<>>
  /\ variousPolicy = "normal"
  /\ sortBy = "artist"
  /\ sorted = None

\* the transforms other than those named in S have not been called
TransformsIdle(S) ==
  /\ IF "isLp33" \in S THEN TRUE ELSE basic = <<>> /\ strict = FALSE /\ lp = None
  /\ IF "buildReleaseRow" \in S THEN TRUE
     ELSE item = <<>> /\ extraArticles = <<>> /\ row = None
  /\ IF "sections" \in S THEN TRUE
     ELSE letters = <<>> /\ showDividers = TRUE /\ sections = None
  /\ IF "generateTxt" \in S THEN TRUE
     ELSE txtRows = <<>> /\ dividers = FALSE /\ txt = None
  /\ IF "getStoredToken" \in S THEN TRUE
     ELSE authItem = None /\ legacyItem = None /\ tokenCall = None
  /\ IF "getRetryDelay" \in S THEN TRUE
     ELSE failedError = NoError /\ failedAttempt = 0 /\ retryWait = None
  /\ IF "fetchCollection" \in S THEN TRUE
     ELSE runs = <<>> /\ writer = 0 /\ lpStrict = FALSE /\ prevLpStrict = None /\ hasFetched = FALSE
  /\ IF "updateSettings" \in S THEN TRUE
     ELSE settings = None /\ closure = None /\ storedSettings = None /\ saving = <<>> /\ lastSet = <<>> /\ updatesMade = 0
  /\ IF "handleExport" \in S THEN TRUE
     ELSE exporting = FALSE /\ exported = None
  /\ IF "runDiscogsOAuthFlow" \in S THEN TRUE
     ELSE consumerKey = <<>> /\ flow = "none" /\ requestToken = None /\ browserResult = None /\ flowTokens = None /\ events = <<>> /\ oauthLoading = FALSE /\ authError = None /\ authenticated = FALSE /\ flowsStarted = 0

\* iterateCollection(client, username, folderId, perPage, maxPages) was called:
\* the generator object exists and its body has not started
Init ==
  /\ FetchIdle
  /\ SortIdle
  /\ TransformsIdle({})
  /\ caller = "direct"
  /\ consumer = "pulling"
  /\ gen = "start"
  /\ maxPages \in MaxPagesArgs

Next ==
  \/ ConsumerPull
  \/ ConsumerBreak
  \/ \E data \in PageData : HttpSuccess(data)
  \/ \E err \in Failures(attempt) : HttpFailure(err)
  \/ RetryTimer
  \/ GenResume
  \/ GenThrow

Spec == Init /\ [][Next]_vars

\* the Collection screen is mounted with stored credentials
HookInit ==
  /\ FetchIdle
  /\ SortIdle
  /\ TransformsIdle({})
  /\ caller = "hook"
  /\ consumer = "pulling"
  /\ gen = "none"
  /\ maxPages = None

HookNext ==
  \/ FetchEffect
  \/ IdentityResolved
  \/ ForAwaitItem
  \/ ForAwaitDone
  \/ FetchCatch
  \/ TryAgain
  \/ Refresh
  \/ \E data \in (IF apiFor = "identity" THEN {IdentityData} ELSE HookPageData) :
       HttpSuccess(data)
  \/ \E err \in HookFailures(attempt) : HttpFailure(err)
  \/ RetryTimer
  \/ GenResume
  \/ GenThrow

HookSpec == HookInit /\ [][HookNext]_vars

\* the steps of a running fetchCollection call: the answers and failures of
\* its HTTP requests, the retry timers, and the continuations of its awaits
FetchProgress ==
  \/ IdentityResolved
  \/ ForAwaitItem
  \/ ForAwaitDone
  \/ FetchCatch
  \/ \E data \in (IF apiFor = "identity" THEN {IdentityData} ELSE HookPageData) :
       HttpSuccess(data)
  \/ \E err \in HookFailures(attempt) : HttpFailure(err)
  \/ RetryTimer
  \/ GenResume
  \/ GenThrow

\* one fetchCollection call, from the effect that makes it to its last setState
LiveNext == FetchEffect \/ FetchProgress

\* every HTTP request completes or fails, every timer fires and every
\* continuation runs
HookLiveSpec == HookInit /\ [][LiveNext]_vars /\ WF_vars(FetchProgress)

\* sortRows is handed an array of rows, a policy and a sort dimension
SortInit ==
  /\ FetchIdle
  /\ caller = "direct"
  /\ consumer = "pulling"
  /\ gen = "none"
  /\ maxPages = None
  /\ inRows \in SeqsUpTo(RowPool, MaxRows)
  /\ variousPolicy \in Policies
  /\ sortBy \in SortBys
  /\ sorted = None
  /\ TransformsIdle({})

SortNext == SortRows

SortSpec == SortInit /\ [][SortNext]_vars

\* no fetch is running and no generator exists
NoFetch ==
  /\ FetchIdle
  /\ caller = "direct"
  /\ consumer = "pulling"
  /\ gen = "none"
  /\ maxPages = None

\* isLp33 is handed an entry's basic_information and the strict flag
LpInit ==
  /\ NoFetch
  /\ SortIdle
  /\ TransformsIdle({"isLp33"})
  /\ basic \in {[formats |-> None]}
                \cup {[formats |-> Some(fs)] : fs \in SeqsUpTo(FormatPool, MaxFormats)}
  /\ strict \in BOOLEAN
  /\ lp = None

LpSpec == LpInit /\ [][IsLp33]_vars

\* buildReleaseRow is handed a collection item and the extra articles
RowInit ==
  /\ NoFetch
  /\ SortIdle
  /\ TransformsIdle({"buildReleaseRow"})
  /\ item \in
       {[basic_information |->
           [artists |-> as, artist |-> fa, title |-> t, year |-> y,
            labels |-> <<[name |-> <<"W", "a", "r", "p">>,
                          catno |-> <<"W", "A", "R", "P", " ", "1", "0", "1">>]>>,
            id |-> Some(7)]] :
          as \in SeqsUpTo(ArtistPool, MaxArtists),
          \* the flat artist field ('' when absent)
          fa \in {<<>>,
            <<"B", "o", "a", "r", "d", "s", " ", "o", "f", " ", "C", "a", "n", "a", "d", "a", " ", "(", "2", ")">>},
          t \in {<<>>,
            <<"G", "e", "o", "g", "a", "d", "d", "i">>,
            <<"T", "h", "e", " ", "A", " ", "T", "e", "a", "m">>,
            <<" ", "A", "n", " ", "A", "l", "b", "u", "m", " ", "(", "2", ")">>},
          y \in {None, Some(1998)}}
  /\ extraArticles \in {<<>>, <<<<" ", "L", "'", " ">>, <<>>>>}
  /\ row = None

RowSpec == RowInit /\ [][BuildReleaseRow]_vars

\* the list view has its filtered rows, each with its section letter
SecInit ==
  /\ NoFetch
  /\ SortIdle
  /\ TransformsIdle({"sections"})
  /\ letters \in SeqsUpTo(SectionLetters, MaxRows)
  /\ showDividers \in BOOLEAN
  /\ sections = None

SecSpec == SecInit /\ [][Sections]_vars

\* generateTxt is handed the rows of the collection, which fetchCollection left
\* sorted by sortRows(rows, 'last', 'artist'), and the dividers flag
TxtInit ==
  /\ NoFetch
  /\ SortIdle
  /\ TransformsIdle({"generateTxt"})
  /\ txtRows \in {sortRows(q, "last", "artist") : q \in SeqsUpTo(TxtRowPool, MaxRows)}
  /\ dividers \in BOOLEAN
  /\ txt = None

TxtSpec == TxtInit /\ [][GenerateTxt]_vars

\* the credential store of an installation: empty, or holding the legacy token
\* of an earlier version, or an object without members
TokenInit ==
  /\ NoFetch
  /\ SortIdle
  /\ TransformsIdle({"getStoredToken"})
  /\ authItem \in {None, Some(<<>>)}
  /\ legacyItem \in {None, Some(<<"t", "0">>), Some(<<" ">>)}
  /\ tokenCall = None

TokenNext ==
  \/ GetStoredToken
  \/ SetStoredCredentials
  \/ SetStoredToken
  \/ ClearStoredCredentials

TokenSpec == TokenInit /\ [][TokenNext]_vars

WaitInit ==
  /\ NoFetch
  /\ SortIdle
  /\ TransformsIdle({"getRetryDelay"})
  /\ failedError \in CaughtErrors
  /\ failedAttempt \in 0..MaxAttempt
  /\ retryWait = None

WaitSpec == WaitInit /\ [][ApiGetCatch]_vars

\* the Collection screen is mounted with stored credentials and its effects
\* have run once
RaceInit ==
  /\ FetchIdle
  /\ SortIdle
  /\ TransformsIdle({"fetchCollection"})
  /\ caller = "hook"
  /\ consumer = "pulling"
  /\ gen = "none"
  /\ maxPages = None
  /\ runs = <<>>
  /\ writer = 0
  /\ lpStrict \in BOOLEAN
  /\ prevLpStrict = Some(lpStrict)
  /\ hasFetched = FALSE

RaceNext ==
  \/ CallFetchCollection
  \/ \E k \in DOMAIN runs : RunIdentity(k)
  \/ \E k \in DOMAIN runs : RunItem(k)
  \/ \E k \in DOMAIN runs : RunDone(k)
  \/ \E k \in DOMAIN runs : RunCatch(k)
  \/ PressReset
  \/ ToggleLpStrict

RaceSpec == RaceInit /\ [][RaceNext]_vars

\* the provider is mounted; storage is empty or holds settings saved earlier
SettingsInit ==
  /\ NoFetch
  /\ SortIdle
  /\ TransformsIdle({"updateSettings"})
  /\ settings = None
  /\ closure = None
  /\ storedSettings \in {None, Some(settingsJson([DEFAULT_SETTINGS EXCEPT !.sortBy = "year"]))}
  /\ saving = <<>>
  /\ lastSet = <<>>
  /\ updatesMade = 0

SettingsNext ==
  \/ LoadSettings
  \/ SelectOption
  \/ Rerender
  \/ SaveCompletes

SettingsSpec == SettingsInit /\ [][SettingsNext]_vars

\* the list view holds the rows of a fetch and the settings of the Settings
\* screen (SORT_OPTIONS, VARIOUS_OPTIONS, the dividers toggle)
ListInit ==
  /\ NoFetch
  /\ TransformsIdle({"sections"})
  /\ inRows \in SeqsUpTo(RowPool, MaxRows)
  /\ variousPolicy \in Policies
  /\ sortBy \in {"artist", "title", "year"}
  /\ sorted = None
  /\ letters = <<>>
  /\ showDividers \in BOOLEAN
  /\ sections = None

ListNext ==
  \/ SortRows
  \/ ListSections

ListSpec == ListInit /\ [][ListNext]_vars

\* the Collection screen is mounted; the settings are any the Settings screen
\* can select
ExportInit ==
  /\ NoFetch
  /\ TransformsIdle({"handleExport"})
  /\ inRows = <<>>
  /\ variousPolicy \in Policies
  /\ sortBy \in {"artist", "title", "year"}
  /\ sorted = None
  /\ exporting = FALSE
  /\ exported = None

ExportNext ==
  \/ ListLoaded
  \/ HandleExport
  \/ ExportSettled

ExportSpec == ExportInit /\ [][ExportNext]_vars

\* the Auth screen is shown: nothing is stored, the consumer key is set or not
OAuthInit ==
  /\ NoFetch
  /\ SortIdle
  /\ TransformsIdle({"runDiscogsOAuthFlow"})
  /\ consumerKey \in {<<>>, <<" ">>, <<"c", "k">>}
  /\ flow = "none"
  /\ requestToken = None
  /\ browserResult = None
  /\ flowTokens = None
  /\ events = <<>>
  /\ oauthLoading = FALSE
  /\ authError = None
  /\ authenticated = FALSE
  /\ flowsStarted = 0

OAuthNext ==
  \/ HandleOAuthSignIn
  \/ RequestTokenAnswered
  \/ BrowserReturns
  \/ AccessTokenAnswered
  \/ SignInResolved
  \/ SignInRejected

OAuthSpec == OAuthInit /\ [][OAuthNext]_vars


\* =================================================================== claims
\* ------------------------------------------------------------------------ C1
RequestedConsecutive == \A i \in 1..Len(requested) : requested[i] = i

\* the first successful page response reported a total-page count T
ReportedT ==
  firstReported # None /\ firstReported[1].present /\ firstReported[1].pages # None

\* min(T, maxPages), and page 1 when that is below 1
LastPage ==
  LET T == firstReported[1].pages[1]
      cap == IF maxPages = None THEN T ELSE Min(T, maxPages[1])
  IN IF cap < 1 THEN 1 ELSE cap

\* C1: one run of iterateCollection / iterateWantlist requests the pages 1, 2, 3,
\* ... in this order without gap or repeat; it never requests a page beyond
\* min(T, maxPages) (page 1 when that is below 1), T being the page count of the
\* first successful response whatever later responses report, and a run that
\* reaches its end has requested exactly the pages up to that one.
C1_PageSequence ==
  /\ RequestedConsecutive
  /\ (firstReported = None => Len(requested) <= 1)
  /\ (ReportedT =>
        /\ Len(requested) <= LastPage
        /\ (gen = "completed" => Len(requested) = LastPage))

\* a run capped at 2 pages of the 3 reported has ended after pages 1 and 2
C1_Witness ==
  /\ gen = "completed"
  /\ requested = <<1, 2>>
  /\ maxPages = Some(2)
  /\ ReportedT
  /\ firstReported[1].pages = Some(3)

\* ------------------------------------------------------------------------ C2
\* C2: at most one HTTP request is outstanding; a further page is requested only
\* when every page requested so far was answered successfully and every item of
\* the latest page has been yielded to the consumer; once the consumer has
\* stopped pulling, no request is sent.
C2_OneRequestAtATime ==
  /\ [](inflight <= 1)
  /\ [][(Len(requested') > Len(requested) /\ Len(requested) >= 1)
          => (okPages = Len(requested) /\ handed = respItems /\ inflight = 0)]_vars
  /\ [][consumer = "stopped" => (requested' = requested /\ inflight' = 0)]_vars

\* page 2 is in flight after the two items of page 1 were consumed
C2_Witness ==
  /\ requested = <<1, 2>>
  /\ inflight = 1
  /\ respItems = 2
  /\ handed = 2

\* ------------------------------------------------------------------------ C3
\* C3: an apiGet call with the default retries sends at most 3 GETs; after the
\* third failed attempt it does not sleep for another one but has thrown, with
\* no request outstanding.
C3_AtMostThreeAttempts ==
  /\ httpCount <= 3
  /\ (api = "sleeping" => httpCount < 3)
  /\ ((lastAttemptErr.kind = "error" /\ lastAttemptErr.n = 2)
        => (api = "thrown" /\ inflight = 0))

\* the third attempt has failed with a retryable status
C3_Witness ==
  /\ api = "thrown"
  /\ httpCount = 3
  /\ lastAttemptErr.response.present
  /\ lastAttemptErr.response.status = 429

\* ------------------------------------------------------------------------ C4
\* the failures the claim calls retryable
RetryableFailure(e) ==
  \/ ~e.response.present
  \/ e.response.status = 429
  \/ (e.response.status >= 500 /\ e.response.status <= 599)

\* C4: after a failed attempt apiGet waits for another attempt exactly when an
\* attempt remains and the failure is a 429, a 5xx or one without a response;
\* otherwise it throws at once, without a wait and without a further request.
C4_RetryIff ==
  /\ (api = "sleeping" => (RetryableFailure(lastAttemptErr) /\ httpCount < 3))
  /\ (api = "thrown" =>
        /\ ~(RetryableFailure(lastAttemptErr) /\ httpCount < 3)
        /\ ~waited
        /\ inflight = 0)

\* a first attempt answered 600 has ended the call
C4_Witness ==
  /\ api = "thrown"
  /\ httpCount = 1
  /\ lastAttemptErr.response.present
  /\ lastAttemptErr.response.status = 600

\* ------------------------------------------------------------------------ C5
\* C5: the error apiGet throws is the error of the last attempt made, and apiGet
\* returns a value only when an attempt succeeded.
C5_LastErrorPropagates ==
  /\ (api = "thrown" =>
        /\ lastError = lastAttemptErr
        /\ lastError.kind = "error"
        /\ lastError.n = httpCount - 1)
  /\ (api = "returned" => httpOk)

\* the call gave up on its third attempt
C5_Witness ==
  /\ api = "thrown"
  /\ lastError.kind = "error"
  /\ lastError.n = 2

\* ------------------------------------------------------------------------ C8
\* C8: once a successful page response lacked the pagination object or its page
\* count, the generator is about to throw or has thrown: it yields nothing more,
\* does not complete, and no request is outstanding.
C8_MalformedFailsFetch ==
  malformed =>
    /\ inflight = 0
    /\ \/ (gen = "awaiting" /\ api = "returned")
       \/ gen = "threw"


\* ------------------------------------------------------------------------ C6
\* C6: once a request of a fetch has failed after its retry loop, that fetch
\* requests no further page and sends nothing, never sets 'success', and ends
\* by setting 'error', a state that holds no rows.
C6_FailureAbortsIngestion ==
  /\ [][(failed /\ fetches' = fetches) =>
          /\ requested' = requested
          /\ inflight' = 0
          /\ state'.status # "success"
          /\ ((fpc # "finished" /\ fpc' = "finished")
                => (state'.status = "error" /\ state'.rows = <<>>))]_vars
  /\ []((failed /\ fpc = "finished") => state.status \in {"error", "idle"})

\* page 2 failed after rows were built from page 1
C6_Witness ==
  /\ failed
  /\ fpc = "finished"
  /\ state.status = "error"
  /\ rows # <<>>
  /\ requested = <<1, 2>>

\* ------------------------------------------------------------------------ C7
\* C7: a fetch that failed before any entry was fetched and a fetch that failed
\* after entries had been fetched never end in the same state.
C7_FailureCasesDistinguished ==
  \A o1 \in errOutcomes : \A o2 \in errOutcomes : (o1[1] # o2[1]) => (o1[2] # o2[2])

\* ------------------------------------------------------------------------ C9
Injections(n) == {f \in [1..n -> 1..n] : \A i \in 1..n : \A j \in 1..n : i # j => f[i] # f[j]}
Permuted(q, f) == [i \in 1..Len(q) |-> q[f[i]]]

\* C9: sortRows returns the same sequence for every permutation of its input.
C9_OrderIndependent ==
  sorted # None =>
    \A f \in Injections(Len(inRows)) :
      sortRows(Permuted(inRows, f), variousPolicy, sortBy) = sorted[1]

\* ----------------------------------------------------------------------- C10
\* the artist_display values of the rows that, trimmed and case-folded, read
\* 'various' or 'various artists'
VariousDisplays ==
  {<<"V", "a", "r", "i", "o", "u", "s">>,
   <<"v", "a", "r", "i", "o", "u", "s">>,
   <<" ", "V", "A", "R", "I", "O", "U", "S", " ", "A", "R", "T", "I", "S", "T", "S", " ">>}
IsCompilation(r) == r.artist_display \in VariousDisplays

\* (primary, secondary) of a is not behind that of b
KeysInOrder(a, b, sb) ==
  LET pa == IF sb = "title" THEN a.sort_title ELSE a.sort_artist
      pb == IF sb = "title" THEN b.sort_title ELSE b.sort_artist
      qa == IF sb = "title" THEN a.sort_artist ELSE a.sort_title
      qb == IF sb = "title" THEN b.sort_artist ELSE b.sort_title
  IN \/ LocaleCompare(pa, pb) < 0
     \/ (pa = pb /\ LocaleCompare(qa, qb) <= 0)

SameRows(q1, q2) ==
  /\ Len(q1) = Len(q2)
  /\ \A r \in RowPool :
       Cardinality({i \in 1..Len(q1) : q1[i] = r}) = Cardinality({i \in 1..Len(q2) : q2[i] = r})

\* C10: with variousPolicy 'last' and sortBy 'artist' or 'title' the output holds
\* the input's rows, no compilation stands before a row that is none, and two
\* rows of the same group stand in primary/secondary key order.
C10_VariousLast ==
  (sorted # None /\ variousPolicy = "last" /\ sortBy \in {"artist", "title"}) =>
    LET out == sorted[1] IN
    /\ SameRows(out, inRows)
    /\ \A i \in 1..Len(out) : \A j \in 1..Len(out) :
         i < j =>
           /\ ~(IsCompilation(out[i]) /\ ~IsCompilation(out[j]))
           /\ (IsCompilation(out[i]) = IsCompilation(out[j])
                 => KeysInOrder(out[i], out[j], sortBy))

\* 'various' sorts before 'zappa', yet the compilation comes last
C10_Witness ==
  /\ variousPolicy = "last"
  /\ sortBy = "artist"
  /\ inRows = <<RowVarious, RowZappa, RowAbba>>
  /\ sorted = Some(<<RowAbba, RowZappa, RowVarious>>)

\* ----------------------------------------------------------------------- C11
Priced(r) == r.lowest_price # None

\* C11: with sortBy price_asc and price_desc alike the output holds the input's
\* rows, no row without lowest_price stands before a row that has one, and the
\* priced rows stand in non-decreasing (price_asc) or non-increasing
\* (price_desc) order of price.
C11_UnpricedLast ==
  (sorted # None /\ sortBy \in {"price_asc", "price_desc"}) =>
    LET out == sorted[1] IN
    /\ SameRows(out, inRows)
    /\ \A i \in 1..Len(out) : \A j \in 1..Len(out) :
         i < j =>
           /\ ~(~Priced(out[i]) /\ Priced(out[j]))
           /\ (Priced(out[i]) /\ Priced(out[j])) =>
                IF sortBy = "price_asc"
                THEN out[i].lowest_price[1] <= out[j].lowest_price[1]
                ELSE out[i].lowest_price[1] >= out[j].lowest_price[1]

\* descending: the dearest row first, the unpriced row still last
C11_Witness ==
  /\ sortBy = "price_desc"
  /\ inRows = <<RowZappa, RowAbba, RowVariations>>
  /\ sorted = Some(<<RowVariations, RowAbba, RowZappa>>)

\* ----------------------------------------------------------------------- C12
\* an entry whose only format is {name: 'Vinyl', descriptions: ds}
OnlyVinyl(ds) ==
  [formats |-> Some(<<[name |-> Some(<<"V", "i", "n", "y", "l">>), descriptions |-> Some(ds)]>>)]

\* C12: isLp33 accepts the entry whose only format is Vinyl with descriptors
\* ['LP'] under strict and lenient mode alike, and the entry whose only format is
\* Vinyl with descriptors ['12"', '33 1/3 RPM'] under lenient mode and not under
\* strict mode.
C12_BoundaryEntries ==
  lp # None =>
    /\ (basic = OnlyVinyl(<<<<"L", "P">>>>) => lp[1] = TRUE)
    /\ (basic = OnlyVinyl(<<<<"1", "2", "\"">>,
                            <<"3", "3", " ", "1", "/", "3", " ", "R", "P", "M">>>>)
          => lp[1] = ~strict)

\* ----------------------------------------------------------------------- C13
\* a descriptor with every period and space removed
Squeezed(t) == SelectSeq(t, LAMBDA c : c # "." /\ c # " ")

\* the 33-rpm signal as stated: the squeezed descriptors contain '33' and
\* include a token equal to or ending in 'rpm'
Signal33Rpm(s) ==
  /\ \E t \in s : Includes(Squeezed(t), <<"3", "3">>)
  /\ \E t \in s : EndsWith(Squeezed(t), <<"r", "p", "m">>)

\* some single vinyl-named format has 'lp' or 'album' and the signal
StrictQualifies(b) ==
  /\ b.formats # None
  /\ \E i \in 1..Len(b.formats[1]) :
       LET f == b.formats[1][i]
           s == IF f.descriptions = None THEN {}
                ELSE {ToLowerCase(Trim(f.descriptions[1][k])) : k \in 1..Len(f.descriptions[1])}
       IN /\ f.name # None
          /\ ToLowerCase(Trim(f.name[1])) = <<"v", "i", "n", "y", "l">>
          /\ (<<"l", "p">> \in s \/ <<"a", "l", "b", "u", "m">> \in s)
          /\ Signal33Rpm(s)

\* C13: under strict mode isLp33 returns true if and only if some single
\* vinyl-named format has a descriptor 'lp' or 'album' and the 33-rpm signal
\* (descriptors without periods and spaces contain '33' and a token equal to or
\* ending in 'rpm'); formats of another name never count.
C13_StrictIffLpAndSignal ==
  (lp # None /\ strict) => (lp[1] = StrictQualifies(basic))

\* ----------------------------------------------------------------------- C14
\* the normalisation of a sort key: article stripping, then lower-casing
NormalizeKey(k, extra) == ToLowerCase(stripArticles(k, extra))

\* C14: a sort key that makeSortKeys produced is a fixed point of the
\* normalisation (stripArticles, then toLowerCase) with the same extra articles.
C14_SortKeysIdempotent ==
  row # None =>
    /\ NormalizeKey(row[1].sort_artist, extraArticles) = row[1].sort_artist
    /\ NormalizeKey(row[1].sort_title, extraArticles) = row[1].sort_title

\* ----------------------------------------------------------------------- C15
\* the name ends in a disambiguator ' (N)'
HasDisambiguator(name) == ReplaceTrailingNumeric(name) # name

\* the '(N)' an artist name ends in
DisambiguatorOf(name) == SubSeq(name, Len(name) - TrailingDigits(SubSeq(name, 1, Len(name) - 1)) - 1, Len(name))

\* the artist names of the entry: those of the artists list, or the flat field
ArtistNamesOf(b) ==
  IF b.artists # <<>> THEN {b.artists[i].name : i \in 1..Len(b.artists)}
  ELSE IF b.artist # <<>> THEN {b.artist}
  ELSE {}

\* C15: when an artist name of the entry ends in a Discogs disambiguator ' (N)',
\* neither artist_display nor sort_artist of the row contains the text '(N)'.
C15_NoDisambiguatorInRow ==
  row # None =>
    \A name \in ArtistNamesOf(item.basic_information) :
      HasDisambiguator(name) =>
        /\ ~Includes(row[1].artist_display, DisambiguatorOf(name))
        /\ ~Includes(row[1].sort_artist, DisambiguatorOf(name))

\* ----------------------------------------------------------------------- C16
IsLetterLabel(l) == Len(l) = 1 /\ \E i \in 1..26 : UpperChars[i] = l[1]

\* C16: in the list of sections letter buckets stand in alphabetical order,
\* purely numeric labels in numeric order, the '#' bucket before the '?' bucket,
\* and '#' and '?' after every letter bucket.
C16_SectionOrder ==
  sections # None =>
    LET secs == sections[1] IN
    \A i \in 1..Len(secs) : \A j \in 1..Len(secs) :
      LET a == secs[i].title
          b == secs[j].title
      IN i < j =>
           /\ (IsLetterLabel(a) /\ IsLetterLabel(b)) => LocaleCompare(a, b) < 0
           /\ (IsNumeric(a) /\ IsNumeric(b)) => ParseInt(a) < ParseInt(b)
           /\ ~(a = <<"?">> /\ b = <<"#">>)
           /\ ~(a \in {<<"#">>, <<"?">>} /\ IsLetterLabel(b))

\* ----------------------------------------------------------------------- C17
\* the lines of a text: the pieces between line feeds (none for the empty text)
RECURSIVE SplitLines(_)
SplitLines(t) ==
  IF \E i \in 1..Len(t) : t[i] = "\n"
  THEN <<BeforeFirst(t, "\n")>> \o SplitLines(SubSeq(t, Len(BeforeFirst(t, "\n")) + 2, Len(t)))
  ELSE <<t>>
LinesOf(t) == IF t = <<>> THEN <<>> ELSE SplitLines(t)

\* a line of the form '=== ... ==='
IsDividerLine(l) == StartsWith(l, <<"=", "=", "=", " ">>) /\ EndsWith(l, <<" ", "=", "=", "=">>)

IsLetterChar(c) ==
  \/ \E i \in 1..26 : UpperChars[i] = c \/ LowerChars[i] = c
  \/ c \in {"e_acute", "E_acute"}

\* the section letter of a record: the upper-cased first character of its sort
\* key when that is a letter, '#' when the key is empty or starts otherwise
SectionLetterOf(r) ==
  IF r.sort_artist # <<>> /\ IsLetterChar(r.sort_artist[1])
  THEN ToUpperChar(r.sort_artist[1])
  ELSE "#"

\* record i opens a section: it is the first record or its letter differs from
\* that of the record before it
OpensSection(i) ==
  i = 1 \/ SectionLetterOf(txtRows[i]) # SectionLetterOf(txtRows[i - 1])

\* where the line of record i stands when the dividers are where they belong
LinePos(i) == i + (IF dividers THEN Cardinality({j \in 1..i : OpensSection(j)}) ELSE 0)

\* C17: with dividers on, the line '=== L ===' stands immediately before the
\* first record and before each record whose section letter L differs from that
\* of the preceding record, and nowhere else; with dividers off there is no
\* divider line.
C17_DividerLines ==
  txt # None =>
    LET lines == LinesOf(txt[1])
        n == Len(txtRows)
    IN /\ Len(lines) = LinePos(n)
       /\ \A i \in 1..n :
            /\ ~IsDividerLine(lines[LinePos(i)])
            /\ (dividers /\ OpensSection(i)) =>
                 lines[LinePos(i) - 1]
                   = <<"=", "=", "=", " ", SectionLetterOf(txtRows[i]), " ", "=", "=", "=">>

\* ----------------------------------------------------------------------- C18
\* the line of a record as stated
RecordLine(r) ==
  r.artist_display \o <<" ", "--", " ">> \o r.title
    \o (IF r.year # None THEN <<" ", "(">> \o NumberToString(r.year[1]) \o <<")">> ELSE <<>>)
    \o (IF r.label = <<>> /\ r.catno = <<>> THEN <<>>
        ELSE <<" ", "[">> \o r.label \o <<" ">> \o r.catno \o <<"]">>)

\* C18: every record line of generateTxt is artist_display, ' -- ', title, then
\* ' (year)' unless the year is absent, then ' [label catno]' unless label and
\* catno are both empty.
C18_RecordLines ==
  txt # None =>
    SelectSeq(LinesOf(txt[1]), LAMBDA l : ~IsDividerLine(l))
      = [i \in 1..Len(txtRows) |-> RecordLine(txtRows[i])]

\* ----------------------------------------------------------------------- C19
\* C19: getStoredToken returns the stored token when the stored credentials are
\* of type 'pat', and null when they are of type 'oauth' or nothing is stored.
C19_TokenOnlyForPat ==
  tokenCall # None =>
    LET c == tokenCall[1]
    IN /\ (c.cred # None /\ c.cred[1].type = "pat" => c.token = Some(c.cred[1].token))
       /\ (c.cred # None /\ c.cred[1].type = "oauth" => c.token = None)
       /\ (c.auth = None /\ c.legacy = None => c.token = None)

\* ----------------------------------------------------------------------- C20
\* Retry-After values that are a number of seconds, and that number
SecondsOf(h) ==
  CASE h = "0" -> Some(0)
    [] h = "2" -> Some(2)
    [] h = "120" -> Some(120)
    [] OTHER -> None

\* the waits without the header, as listed: 1000, 2000, 4000, 8000, 10000, ...
ListedWait(k) == IF k < 4 THEN <<1000, 2000, 4000, 8000>>[k + 1] ELSE 10000

C21_PriceTiesByKey ==
  (sorted # None /\ sortBy \in {"price_asc", "price_desc"}) =>
    LET out == sorted[1] IN
    \A i \in 1..Len(out) : \A j \in 1..Len(out) :
      (i < j /\ out[i].lowest_price = out[j].lowest_price) =>
        LocaleCompare(out[i].sort_artist \o out[i].sort_title,
                      out[j].sort_artist \o out[j].sort_title) <= 0

\* ----------------------------------------------------------------------- C22
\* C22: with variousPolicy 'title' and sortBy 'artist' or 'title', two
\* compilations of the output stand in non-decreasing sort_title order, and by
\* year (missing as 9999) when their titles are equal, whatever other rows the
\* input holds.
C22_CompilationsByTitle ==
  (sorted # None /\ variousPolicy = "title" /\ sortBy \in {"artist", "title"}) =>
    LET out == sorted[1]
        yr(r) == IF r.year = None THEN 9999 ELSE r.year[1]
    IN \A i \in 1..Len(out) : \A j \in 1..Len(out) :
         (i < j /\ IsCompilation(out[i]) /\ IsCompilation(out[j])) =>
           \/ LocaleCompare(out[i].sort_title, out[j].sort_title) < 0
           \/ (out[i].sort_title = out[j].sort_title /\ yr(out[i]) <= yr(out[j]))

\* ----------------------------------------------------------------------- C23
\* the sign the array sort reads from the comparator's result for rows a and b
Sign(a, b) == SortCompare(comparator(a, b, variousPolicy, sortBy))

\* C23: for every sortBy and variousPolicy the comparator handed to the array
\* sort is a consistent ordering: cmp(a,b) and cmp(b,a) have opposite signs or
\* are both 0, and cmp(a,b) <= 0 with cmp(b,c) <= 0 implies cmp(a,c) <= 0.
C23_ConsistentComparator ==
  sorted # None =>
    \A i \in 1..Len(inRows) : \A j \in 1..Len(inRows) : \A k \in 1..Len(inRows) :
      LET a == inRows[i]
          b == inRows[j]
          c == inRows[k]
      IN /\ Sign(a, b) = 0 - Sign(b, a)
         /\ (Sign(a, b) <= 0 /\ Sign(b, c) <= 0) => Sign(a, c) <= 0

\* ----------------------------------------------------------------------- C24
\* C24: a fetchCollection call started before a reset() never changes the hook
\* state after that reset: the call that set the state last is not one a reset
\* superseded, and a 'success' state was set by the call started last.
C24_NoSupersededWrite ==
  /\ (writer # 0 => ~runs[writer].superseded)
  /\ (state.status = "success" => writer = fetches)

\* ----------------------------------------------------------------------- C25
\* C25: no settings update is lost: the in-memory settings hold for each field
\* the value of the most recent updateSettings call that set it, and once all
\* saves have completed the stored settings equal the in-memory settings.
C25_NoLostUpdate ==
  settings # None =>
    /\ settings[1] = lastSet
    /\ (saving = <<>> /\ updatesMade > 0) => loadSettings(storedSettings) = settings[1]

\* ----------------------------------------------------------------------- C26
\* the members of the sections, section after section
RECURSIVE Members(_)
Members(secs) ==
  IF secs = <<>> THEN <<>>
  ELSE Members(SubSeq(secs, 1, Len(secs) - 1)) \o secs[Len(secs)].data

\* C26: with dividers shown and sortBy 'artist' or 'title', the sections in
\* their order with their members in their order are the sequence sortRows
\* returned, for every variousPolicy.
C26_SectionsKeepOrder ==
  (sections # None /\ showDividers /\ sortBy \in {"artist", "title"}) =>
    Members(sections[1]) = [i \in 1..Len(sorted[1]) |-> i]

Happened(e) == \E i \in DOMAIN events : events[i] = e

\* the value of parameter name in the callback URL the browser returned, ""
\* when there is no URL or no such parameter
CallbackParam(name) ==
  IF browserResult = None \/ browserResult[1].url = None THEN ""
  ELSE LET q == browserResult[1].url[1]
           at == {i \in DOMAIN q : q[i][1] = name}
       IN IF at = {} THEN "" ELSE q[CHOOSE i \in at : \A j \in at : i <= j][2]

\* a request token was obtained, the browser returned 'success' with a URL
\* carrying both parameters, and the returned token is the request token
CallbackVerified ==
  /\ requestToken # None
  /\ browserResult # None
  /\ browserResult[1].type = "success"
  /\ browserResult[1].url # None
  /\ CallbackParam("oauth_verifier") # ""
  /\ CallbackParam("oauth_token") # ""
  /\ CallbackParam("oauth_token") = requestToken[1].oauthToken

\* C28: the access-token endpoint is called only after a request token was
\* obtained and the browser returned a verified callback, in this order; in
\* every other case the flow ends with an error without that call; credentials
\* are stored and onAuthenticated is called only after the flow returned tokens.
C28_OAuthOrder ==
  /\ Happened("access_token") =>
        (CallbackVerified /\ SubSeq(events, 1, 3) = <<"request_token", "browser", "access_token">>)
  /\ (events # <<>> /\ flow \notin {"request_token", "browser"} /\ ~CallbackVerified) =>
        (~Happened("access_token") /\ authError # None /\ (flow = "thrown" \/ Happened("error")))
  /\ (Happened("stored") \/ Happened("onAuthenticated")) =>
        /\ flowTokens # None
        /\ events = <<"request_token", "browser", "access_token", "tokens", "stored", "onAuthenticated">>
        /\ authItem = Some(<<<<"type", <<"oauth">>>>, <<"token", <<flowTokens[1].token>>>>,
                              <<"secret", <<flowTokens[1].secret>>>>>>)
  /\ authenticated => authItem # None

\* a sign-in went through: callback verified, tokens returned and stored
C28_Witness ==
  /\ authenticated
  /\ CallbackVerified
  /\ Happened("onAuthenticated")
  /\ flowTokens = Some([token |-> "tok", secret |-> "sec"])

\* ----------------------------------------------------------------------- C29
\* the call asks for no page beyond the count of its first response and sends
\* no more than DefaultRetries GETs for one request
BoundedRequests ==
  /\ Len(requested) <= (IF ReportedT THEN LastPage ELSE 1)
  /\ httpCount <= DefaultRetries

\* C29: every fetchCollection call eventually leaves state 'loading' for
\* 'success' or 'error' when each HTTP request eventually completes or fails:
\* the page requests are bounded by the page count of the first response and
\* every request makes at most 3 attempts, whatever later responses report.
C29_FetchEnds ==
  /\ []BoundedRequests
  /\ (state.status = "loading") ~> (state.status \in {"success", "error"})

\* a fetch ended in 'success' after asking for every page the first response
\* reported
C29_Witness ==
  /\ state.status = "success"
  /\ firstReported # None
  /\ firstReported[1].present
  /\ firstReported[1].pages = Some(MaxHookPages)
  /\ okPages = MaxHookPages
  /\ Len(requested) = MaxHookPages

\* ----------------------------------------------------------------------- C30
\* buildReleaseRow of the qualifying entries, in the order the pages returned
\* them
QualifyingRows ==
  [n \in 1..Len(qualifying) |->
     buildReleaseRow(HookItem(qualifying[n][1], qualifying[n][2]), <<>>)]

\* C30: when fetchCollection ends in 'success', its rows hold exactly one row
\* for each entry returned by the requested pages that has basic_information
\* and passes isLp33, none dropped or duplicated across page boundaries and no
\* rejected entry included, in the order of sortRows(rows, 'last', 'artist').
C30_RowsAreTheLps ==
  state.status = "success" =>
    /\ Len(state.rows) = Len(qualifying)
    /\ \A n \in 1..Len(qualifying) :
         Cardinality({i \in 1..Len(state.rows) :
                        state.rows[i].release_id
                          = Some(10 * qualifying[n][1] + qualifying[n][2])}) = 1
    /\ state.rows = sortRows(QualifyingRows, "last", "artist")

\* a fetch of MaxHookPages pages ended in 'success' with an LP of every page,
\* in another order than the pages returned them
C30_Witness ==
  /\ state.status = "success"
  /\ okPages = MaxHookPages
  /\ Len(state.rows) = MaxHookPages
  /\ state.rows # QualifyingRows

====
